---- MODULE Spec2Model ----
(***************************************************************************)
(* A model of jx-promote's promotion core:                                 *)
(*   - the helmfile rule (pkg/rules/helmfile/helmfile_rule.go): release    *)
(*     matching by score, update/append of release declarations, and the   *)
(*     repository prefix allocator defaultPrefix;                          *)
(*   - the environment pull request workflow (package environments):       *)
(*     Create, FindExistingPullRequest, checkoutExistingPullRequest,       *)
(*     CreatePullRequest and addLabelsToPullRequest.                       *)
(*                                                                         *)
(* Go strings are modelled as sequences of one-character strings, so that  *)
(* concatenation, prefix trimming and character replacement are computed   *)
(* and not assumed.                                                        *)
(***************************************************************************)
EXTENDS Naturals, Integers, Sequences, FiniteSets, TLC

VARIABLES
    helmfile,      \* the state.HelmState being promoted into (flat or nested document)
    nestedHelmfile,\* whether rule.Path has a directory part (modifyHelmfile, dirName != "")
    envConfig,     \* the environment's configuration: the HelmfileRule and DevEnv.Spec.RemoteCluster
    promo,         \* the last promotion applied to helmfile: its inputs, the document before
    promotions,    \* number of promotions applied so far
    rulePath,      \* rule.Path, the path of the document from the root directory
    rootHelmfiles, \* the Helmfiles of the root helmfile.yaml: the paths of its links
    rootHelmfiles0,\* the links of the root document before the first promotion
    registry,      \* appsConfig.Repositories, the repository registry the allocator works on
    registry0,     \* the registry before the first allocator call
    chartKind,     \* envctx.Requirements: "nil" (no Requirements) or its Cluster.ChartKind
    allocs,        \* the allocator calls made so far: target URL, prefix before and after
    labelPr,       \* the pull request on the remote that labels are reconciled on
    labelCall,     \* the last addLabelsToPullRequest call: its inputs, its remote calls, its result
    labelCalls,    \* number of label reconciliations made so far
    cfg,           \* what Create is called with: git URL, options, callback kind, autoMerge
    remote,        \* the remote repository: its pull requests and its branches
    o,             \* the EnvironmentPullRequestOptions fields Create reads and writes
    git,           \* the local clone: current branch, HEAD commit, working tree
    fs,            \* the directories that exist on the local disk
    run,           \* the locals of the Create call in progress, and what it returned
    pc,            \* where the Create call in progress stands
    ops,           \* the git and remote operations the Create call in progress has made
    prev,          \* what the previous Create call was given and what it returned
    runs,          \* number of Create calls started
    failures       \* number of operations that have failed so far

helmVars == <<helmfile, nestedHelmfile, envConfig, promo, promotions,
              rulePath, rootHelmfiles, rootHelmfiles0>>
prefixVars == <<registry, registry0, chartKind, allocs>>
labelVars == <<labelPr, labelCall, labelCalls>>
prVars == <<cfg, remote, o, git, fs, run, pc, ops, prev, runs, failures>>

vars == <<helmfile, nestedHelmfile, envConfig, promo, promotions,
          rulePath, rootHelmfiles, rootHelmfiles0,
          registry, registry0, chartKind, allocs,
          labelPr, labelCall, labelCalls,
          cfg, remote, o, git, fs, run, pc, ops, prev, runs, failures>>

----------------------------------------------------------------------------
(* Strings *)

EmptyStr == <<>>

\* Go's a + b on strings
Concat(a, b) == a \o b

\* strings.TrimPrefix(s, prefix)
TrimPrefix(s, prefix) ==
    IF Len(s) >= Len(prefix) /\ SubSeq(s, 1, Len(prefix)) = prefix
    THEN SubSeq(s, Len(prefix) + 1, Len(s))
    ELSE s

\* a mutant of ReplaceAllChar: strings.Replace(s, old, new, 1), the first occurrence only
ReplaceFirstChar(s, old, new) ==
    [i \in 1..Len(s) |->
        IF s[i] = old /\ (\A j \in 1..(i - 1) : s[j] # old) THEN new ELSE s[i]]

\* strings.Replace(s, old, new, -1) for one-character old and new
ReplaceAllChar(s, old, new) ==
    [i \in 1..Len(s) |-> IF s[i] = old THEN new ELSE s[i]]

\* fmt.Sprintf("%s-%s", a, b)
SprintfDash(a, b) == a \o <<"-">> \o b

sFoo == <<"f", "o", "o">>
sBar == <<"b", "a", "r">>
sMyChart == <<"m", "y">>
sDevFoo == <<"d", "e", "v", "/", "f", "o", "o">>
sJx == <<"j", "x">>
sStaging == <<"s", "t", "g">>
sDev == <<"d", "e", "v">>
v100 == <<"1", ".", "0", ".", "0">>
v120 == <<"1", ".", "2", ".", "0">>
v200 == <<"2", ".", "0", ".", "0">>
sFoo200 == <<"f", "o", "o", "-", "2", "-", "0", "-", "0">>
sChartMuseum == <<"h", "t", "t", "p", ":", "/", "/", "c", "m">>

----------------------------------------------------------------------------
(* Bounds of the helmfile model *)

\* releases in an initial document
MaxReleases == 2
\* promotions applied in one behaviour
MaxPromotions == 1

\* entries of an initial repository registry
MaxRepositories == 2
\* allocator calls in one behaviour
MaxAllocs == 2

----------------------------------------------------------------------------
(* defaultPrefix: the repository prefix allocator *)

sOciScheme == <<"o", "c", "i", ":", "/", "/">>
sDev2 == <<"d", "e", "v", "2">>
urlA == <<"a">>
urlB == <<"b">>
urlZ == <<"z">>

DigitChars == <<"0", "1", "2", "3", "4", "5", "6", "7", "8", "9">>

\* the %d of fmt.Sprintf for i >= 0
RECURSIVE Itoa(_)
Itoa(i) ==
    IF i < 10 THEN <<DigitChars[i + 1]>>
    ELSE Itoa(i \div 10) \o <<DigitChars[(i % 10) + 1]>>

\* a Go map[string]string read: the zero value "" for a missing key
MapGet(m, k) == IF k \in DOMAIN m THEN m[k] ELSE EmptyStr

LastIndex(S) == CHOOSE k \in S : \A j \in S : j <= k

\* the indexes of the entries the loop records in its maps (r.Name != "")
NamedEntries(repos) == {k \in 1..Len(repos) : repos[k].Name # EmptyStr}

\* prefixes[r.Name] = r.URL over the registry in order: a later entry overwrites
PrefixesMap(repos) ==
    [n \in {repos[k].Name : k \in NamedEntries(repos)} |->
        repos[LastIndex({k \in NamedEntries(repos) : repos[k].Name = n})].URL]

\* urls[r.URL] = r.Name over the registry in order: a later entry overwrites
UrlsMap(repos) ==
    [u \in {repos[k].URL : k \in NamedEntries(repos)} |->
        repos[LastIndex({k \in NamedEntries(repos) : repos[k].URL = u})].Name]

\* a mutant of ProbePrefix: the first candidate is taken without looking it up
ProbePrefixNoLookup(prefixes, base, i) == Concat(base, Itoa(i))

\* the loop for { prefix = Sprintf("%s%d", defaultPrefix, i); if prefixes[prefix] == "" {break}; i++ }
RECURSIVE ProbePrefix(_, _, _)
ProbePrefix(prefixes, base, i) ==
    IF MapGet(prefixes, Concat(base, Itoa(i))) = EmptyStr
    THEN Concat(base, Itoa(i))
    ELSE ProbePrefix(prefixes, base, i + 1)

\* oci = Requirements != nil && Requirements.Cluster.ChartKind == ChartRepositoryTypeOCI
IsOCI(kind) == kind = "oci"

\* the registry after the loop over appsConfig.Repositories: r := appsConfig.Repositories[k]
\* copies the entry, so that r.OCI = oci changes the copy and the registry stays as it was
RepositoriesAfterScan(repos, repository, oci) == repos

\* ChartDetails.SetPrefix: fills in the prefix of the chart details
SetPrefix(d, prefix) == [d EXCEPT !.Prefix = prefix]

\* defaultPrefix(appsConfig, envctx, d, defaultPrefix): the registry and the details after it
defaultPrefix(repos, kind, d, dflt) ==
    IF d.Prefix # EmptyStr THEN [Repositories |-> repos, d |-> d]
    ELSE
        LET repository == TrimPrefix(d.Repository, sOciScheme)
            oci == IsOCI(kind)
            found == \E k \in 1..Len(repos) : repos[k].URL = repository
            scanned == RepositoriesAfterScan(repos, repository, oci)
            prefixes == PrefixesMap(repos)
            urls == UrlsMap(repos)
            prefix ==
                IF MapGet(urls, repository) # EmptyStr THEN MapGet(urls, repository)
                ELSE IF MapGet(prefixes, dflt) = EmptyStr THEN dflt
                ELSE ProbePrefix(prefixes, dflt, 2)
        IN  [Repositories |->
                IF found THEN scanned
                ELSE Append(scanned, [Name |-> prefix, URL |-> repository, OCI |-> oci]),
             d |-> SetPrefix([d EXCEPT !.Repository = repository], prefix)]

\* the registry entries an initial registry is made of
RepositoryEntries ==
    {[Name |-> n, URL |-> u, OCI |-> oci] :
        n \in {sDev, sDev2, EmptyStr}, u \in {urlZ, urlA}, oci \in BOOLEAN}

RECURSIVE SeqsUpTo(_, _)
SeqsUpTo(S, n) ==
    IF n = 0 THEN {<<>>}
    ELSE SeqsUpTo(S, n - 1) \cup
         {Append(q, e) : q \in {q \in SeqsUpTo(S, n - 1) : Len(q) = n - 1}, e \in S}

\* the chart details the allocator is called with: target URL and prefix already set or not
AllocTargets ==
    {[Name |-> sFoo, LocalName |-> sFoo, Repository |-> u, Prefix |-> EmptyStr] :
        u \in {urlA, Concat(sOciScheme, urlA), urlB}}
    \cup {[Name |-> sFoo, LocalName |-> sFoo, Repository |-> urlB, Prefix |-> sJx]}

PrefixInit ==
    /\ registry \in SeqsUpTo(RepositoryEntries, MaxRepositories)
    /\ registry0 = registry
    /\ chartKind \in {"nil", "oci", "helm"}
    /\ allocs = <<>>

\* one call defaultPrefix(helmfile, r.DevEnvContext, details, "dev")
Allocate ==
    /\ Len(allocs) < MaxAllocs
    /\ \E d \in AllocTargets :
        LET res == defaultPrefix(registry, chartKind, d, sDev)
        IN  /\ registry' = res.Repositories
            /\ allocs' = Append(allocs, [target |-> d, before |-> registry, d |-> res.d])
    /\ UNCHANGED <<registry0, chartKind>>

----------------------------------------------------------------------------
(* The helmfile rule: release matching and the update/append of a release *)

\* contains(arr, str)
contains(arr, str) == \E i \in 1..Len(arr) : arr[i] = str

\* a mutant of ScoreFlat: the release name match scores like the app name match
ScoreFlatEqualWeights(release, r, promoteNs, isRemoteEnv) ==
    (IF release.Name = r.AppName /\ (release.Namespace = promoteNs \/ isRemoteEnv)
     THEN 1 ELSE 0)
    + (IF r.ReleaseName # EmptyStr /\ release.Name = r.ReleaseName
          /\ (release.Namespace = promoteNs \/ isRemoteEnv)
       THEN 1 ELSE 0)

\* the score of one release in modifyHelmfileApps
ScoreFlat(release, r, promoteNs, isRemoteEnv) ==
    (IF release.Name = r.AppName /\ (release.Namespace = promoteNs \/ isRemoteEnv)
     THEN 1 ELSE 0)
    + (IF r.ReleaseName # EmptyStr /\ release.Name = r.ReleaseName
          /\ (release.Namespace = promoteNs \/ isRemoteEnv)
       THEN 2 ELSE 0)

\* the score of one release in promoteNestedHelmfileReleases
ScoreNested(release, r) ==
    (IF release.Name = r.AppName THEN 1 ELSE 0)
    + (IF r.ReleaseName # EmptyStr /\ release.Name = r.ReleaseName THEN 2 ELSE 0)

\* a mutant of Beats: an equal score replaces the best so far
BeatsOrTies(score, highestScore) == score >= highestScore

\* if score > highestScore
Beats(score, highestScore) == score > highestScore

\* the loop over helmfile.Releases of modifyHelmfileApps from index i on; best is
\* (highestScorer, highestScore), index 0 for the fresh new(state.ReleaseSpec)
RECURSIVE FlatScan(_, _, _, _, _, _)
FlatScan(releases, r, promoteNs, isRemoteEnv, i, best) ==
    IF i > Len(releases) THEN best
    ELSE LET score == ScoreFlat(releases[i], r, promoteNs, isRemoteEnv)
         IN  FlatScan(releases, r, promoteNs, isRemoteEnv, i + 1,
                      IF Beats(score, best.score)
                      THEN [index |-> i, score |-> score] ELSE best)

\* the loop over helmfile.Releases of promoteNestedHelmfileReleases
RECURSIVE NestedScan(_, _, _, _)
NestedScan(releases, r, i, best) ==
    IF i > Len(releases) THEN best
    ELSE LET score == ScoreNested(releases[i], r)
         IN  NestedScan(releases, r, i + 1,
                        IF Beats(score, best.score)
                        THEN [index |-> i, score |-> score] ELSE best)

NoScorer == [index |-> 0, score |-> 0]

\* a mutant of SetVersion: the release is rebuilt from the chart details
SetVersionAndChart(releases, i, version, details) ==
    [releases EXCEPT ![i].Version = version, ![i].Chart = details.Name]

\* highestScorer.Version = r.Version, highestScorer pointing into helmfile.Releases
SetVersion(releases, i, version, details) ==
    [releases EXCEPT ![i].Version = version]

\* a mutant of NewReleaseName: only the first dot of the version is replaced
NewReleaseNameFirstDot(r, details, keepOldReleases) ==
    LET name == IF r.ReleaseName # EmptyStr THEN r.ReleaseName ELSE details.LocalName
    IN  IF keepOldReleases
        THEN SprintfDash(name, ReplaceFirstChar(r.Version, ".", "-"))
        ELSE name

\* the name of an appended release
NewReleaseName(r, details, keepOldReleases) ==
    LET name == IF r.ReleaseName # EmptyStr THEN r.ReleaseName ELSE details.LocalName
    IN  IF keepOldReleases
        THEN SprintfDash(name, ReplaceAllChar(r.Version, ".", "-"))
        ELSE name

\* a mutant of NestedNamespace: the namespace is always written
NestedNamespaceAlways(promoteNs, overrideNamespace) == promoteNs

\* ns := ""; if promoteNs != helmfile.OverrideNamespace { ns = promoteNs }
NestedNamespace(promoteNs, overrideNamespace) ==
    IF promoteNs # overrideNamespace THEN promoteNs ELSE EmptyStr

\* the first release rule of promoteNestedHelmfileReleases
FirstReleaseOverride(hf, promoteNs) ==
    IF Len(hf.Releases) = 0 /\ promoteNs # EmptyStr /\ hf.OverrideNamespace = EmptyStr
    THEN promoteNs
    ELSE hf.OverrideNamespace

\* promoteNestedHelmfileReleases(r, details, promoteNs, helmfile, keepOldReleases)
promoteNestedHelmfileReleases(r, details, promoteNs, hf, keepOldReleases) ==
    LET overrideNs == FirstReleaseOverride(hf, promoteNs)
        best == IF keepOldReleases THEN NoScorer
                ELSE NestedScan(hf.Releases, r, 1, NoScorer)
    IN  [hf EXCEPT
            !.OverrideNamespace = overrideNs,
            !.Releases =
                IF best.score > 0
                THEN SetVersion(hf.Releases, best.index, r.Version, details)
                ELSE Append(hf.Releases,
                            [Name |-> NewReleaseName(r, details, keepOldReleases),
                             Chart |-> details.Name,
                             Namespace |-> NestedNamespace(promoteNs, overrideNs),
                             Version |-> r.Version])]

\* promoteNs as modifyHelmfileApps resolves it
ResolveNamespace(r, promoteNs) ==
    IF promoteNs # EmptyStr THEN promoteNs
    ELSE IF r.Namespace # EmptyStr THEN r.Namespace
    ELSE sJx

\* r.HelmRepositoryURL as modifyHelmfileApps defaults it
ResolveRepositoryURL(r) ==
    IF r.HelmRepositoryURL = EmptyStr THEN sChartMuseum ELSE r.HelmRepositoryURL

\* keepOldReleases := rule.KeepOldReleases || contains(rule.KeepOldVersions, details.Name)
KeepOldReleases(r, details) ==
    r.KeepOldReleases \/ contains(r.KeepOldVersions, details.Name)

\* modifyHelmfileApps(r, helmfile, promoteNs, nestedHelmfile) once r.DevEnvContext is
\* there and ChartDetails has answered resolved: the document after it
modifyHelmfileApps(r, hf, promoteNs0, nested, resolved) ==
    LET alloc == defaultPrefix(hf.Repositories, r.ChartKind, resolved, sDev)
        details == alloc.d
        hf1 == [hf EXCEPT !.Repositories = alloc.Repositories]
        promoteNs == ResolveNamespace(r, promoteNs0)
        keepOldReleases == KeepOldReleases(r, details)
        best == IF keepOldReleases THEN NoScorer
                ELSE FlatScan(hf1.Releases, r, promoteNs, r.RemoteCluster, 1, NoScorer)
    IN  IF nested
        THEN promoteNestedHelmfileReleases(r, details, promoteNs, hf1, keepOldReleases)
        ELSE [hf1 EXCEPT !.Releases =
                IF best.score > 0
                THEN SetVersion(hf1.Releases, best.index, r.Version, details)
                ELSE Append(hf1.Releases,
                            [Name |-> NewReleaseName(r, details, keepOldReleases),
                             Chart |-> details.Name,
                             Version |-> r.Version,
                             Namespace |-> promoteNs])]

\* what DevEnvContext.ChartDetails(app, repo) may answer: the chart name with or
\* without a repository prefix, a local name that is the app name or another one
ChartDetails(app, repo) ==
    {[Name |-> app, LocalName |-> app, Repository |-> repo, Prefix |-> EmptyStr],
     [Name |-> sDevFoo, LocalName |-> app, Repository |-> repo, Prefix |-> EmptyStr],
     [Name |-> sMyChart, LocalName |-> sMyChart, Repository |-> repo, Prefix |-> EmptyStr]}

\* the releases an initial document is made of
ReleaseEntries(nested) ==
    {[Name |-> n, Chart |-> sDevFoo, Version |-> v100, Namespace |-> ns] :
        n \in {sFoo, sBar},
        ns \in IF nested THEN {EmptyStr, sStaging} ELSE {sJx, sStaging}}

\* the configurations of an environment: the HelmfileRule of its config and
\* DevEnv.Spec.RemoteCluster (read for a flat document only)
EnvConfigs(nested) ==
    {[RuleNamespace |-> ns, KeepOldReleases |-> k[1], KeepOldVersions |-> k[2],
      RemoteCluster |-> rc] :
        ns \in {EmptyStr, sStaging},
        k \in {<<FALSE, <<>> >>, <<TRUE, <<>> >>, <<FALSE, <<sFoo>> >>},
        rc \in IF nested THEN {FALSE} ELSE BOOLEAN}

\* the promotion requests: the PromoteRule fields, with the configuration it carries
PromoteRules(config) ==
    {[AppName |-> sFoo, Version |-> v, ReleaseName |-> rn, Namespace |-> ns,
      RuleNamespace |-> config.RuleNamespace, HelmRepositoryURL |-> EmptyStr,
      KeepOldReleases |-> config.KeepOldReleases,
      KeepOldVersions |-> config.KeepOldVersions,
      RemoteCluster |-> config.RemoteCluster, ChartKind |-> "nil"] :
        v \in {v120, v200}, rn \in {EmptyStr, sBar}, ns \in {EmptyStr, sStaging}}

NoPromo ==
    [outcome |-> "none", r |-> << >>, resolved |-> << >>, before |-> << >>,
     root |-> << >>]

\* number of links the root document has at most before the first promotion
MaxLinks == 2

\* rule.Path of a flat document, and the nested paths: a plain one, one in another
\* directory and one whose directory name has brackets
pathFlat == <<"h">>
pathA == <<"a", "/", "h">>
pathB == <<"b", "/", "h">>
pathBrackets == <<"[", "a", "]", "/", "h">>
pathStar == <<"*", "/", "h">>

\* dirName, _ := filepath.Split(rule.Path); nestedHelmfile := dirName != ""
IsNestedPath(path) == \E i \in DOMAIN path : path[i] = "/"

\* the index of the "]" that closes the class opened at pattern[1], 0 when there is
\* none or the class is empty
ClassEnd(pattern) ==
    IF \E j \in 3..Len(pattern) : pattern[j] = "]"
    THEN CHOOSE j \in 3..Len(pattern) :
            pattern[j] = "]" /\ \A k \in 3..(j - 1) : pattern[k] # "]"
    ELSE 0

\* filepath.Match(pattern, name) answering (true, nil): "*" stands for any run of
\* characters other than "/", "?" for one of them, "[...]" for one character of the
\* class, and any other character for itself; a malformed pattern matches nothing
RECURSIVE Match(_, _)
Match(pattern, name) ==
    IF pattern = <<>> THEN name = <<>>
    ELSE IF Head(pattern) = "*"
    THEN \E k \in 0..Len(name) :
            /\ \A i \in 1..k : name[i] # "/"
            /\ Match(Tail(pattern), SubSeq(name, k + 1, Len(name)))
    ELSE IF Head(pattern) = "?"
    THEN name # <<>> /\ Head(name) # "/" /\ Match(Tail(pattern), Tail(name))
    ELSE IF Head(pattern) = "["
    THEN LET j == ClassEnd(pattern)
         IN /\ j # 0
            /\ name # <<>>
            /\ \E k \in 2..(j - 1) : pattern[k] = Head(name)
            /\ Match(SubSeq(pattern, j + 1, Len(pattern)), Tail(name))
    ELSE name # <<>> /\ Head(name) = Head(pattern) /\ Match(Tail(pattern), Tail(name))

\* the loop over rootState.Helmfiles and the append of modifyHelmfile
EnsureLinked(links, nestedPath) ==
    IF \E i \in DOMAIN links : Match(links[i], nestedPath)
    THEN links
    ELSE Append(links, nestedPath)

HelmInit ==
    /\ nestedHelmfile \in BOOLEAN
    /\ rulePath = (IF nestedHelmfile THEN pathA ELSE pathFlat)
    /\ rootHelmfiles = <<>>
    /\ rootHelmfiles0 = <<>>
    /\ helmfile \in
        {[Releases |-> rs, OverrideNamespace |-> ns,
          Repositories |-> <<[Name |-> sDev, URL |-> urlZ, OCI |-> FALSE]>>] :
            rs \in SeqsUpTo(ReleaseEntries(nestedHelmfile), MaxReleases),
            ns \in IF nestedHelmfile THEN {EmptyStr, sJx} ELSE {EmptyStr}}
    /\ envConfig \in EnvConfigs(nestedHelmfile)
    /\ promo = NoPromo
    /\ promotions = 0

\* Rule(r) reaching the end of modifyHelmfile for one of the requests: the document is
\* loaded, promoted and saved, and a nested document is linked from the root document
RuleOf(requests, limit) ==
    /\ promotions < limit
    /\ \E r \in requests :
        \E resolved \in ChartDetails(r.AppName, ResolveRepositoryURL(r)) :
            /\ helmfile' = modifyHelmfileApps(r, helmfile, r.RuleNamespace,
                                              nestedHelmfile, resolved)
            /\ promo' = [outcome |-> "ok", r |-> r, resolved |-> resolved,
                         before |-> helmfile, root |-> rootHelmfiles]
    /\ rootHelmfiles' = IF nestedHelmfile
                        THEN EnsureLinked(rootHelmfiles, rulePath)
                        ELSE rootHelmfiles
    /\ promotions' = promotions + 1
    /\ UNCHANGED <<nestedHelmfile, envConfig, rulePath, rootHelmfiles0>>

Rule == RuleOf(PromoteRules(envConfig), MaxPromotions)

\* Rule(r) returning an error before the document is saved: no helmfileRule configured,
\* no devEnvContext, ChartDetails failing, or the file not loaded or not written
RuleFailsOf(limit) ==
    /\ promotions < limit
    /\ \E reason \in {"norule", "noctx", "chartdetails", "io"} :
        promo' = [NoPromo EXCEPT !.outcome = reason]
    /\ promotions' = promotions + 1
    /\ UNCHANGED <<helmfile, nestedHelmfile, envConfig, rulePath, rootHelmfiles,
                   rootHelmfiles0>>

RuleFails == RuleFailsOf(MaxPromotions)

----------------------------------------------------------------------------
(* Promotions of one app in a row, and the links of the root document *)

\* number of promotions made in a row
MaxRepeats == 2

\* the path patterns of the links a root document has
LinkPatterns == {pathA, pathB, pathStar, pathBrackets}

\* the requests for the app with no release name and no namespace of their own
RepeatRequests(config) ==
    {r \in PromoteRules(config) : r.ReleaseName = EmptyStr /\ r.Namespace = EmptyStr}

RepeatInit ==
    /\ rulePath \in {pathFlat, pathA, pathBrackets}
    /\ nestedHelmfile = IsNestedPath(rulePath)
    /\ rootHelmfiles \in (IF nestedHelmfile THEN SeqsUpTo(LinkPatterns, MaxLinks)
                           ELSE {<<>>})
    /\ rootHelmfiles0 = rootHelmfiles
    /\ helmfile \in
        {[Releases |-> rs, OverrideNamespace |-> EmptyStr,
          Repositories |-> <<[Name |-> sDev, URL |-> urlZ, OCI |-> FALSE]>>] :
            rs \in SeqsUpTo(ReleaseEntries(nestedHelmfile), 1)}
    /\ envConfig \in {c \in EnvConfigs(nestedHelmfile) :
                        /\ ~c.KeepOldReleases /\ c.KeepOldVersions = <<>>
                        /\ c.RuleNamespace = EmptyStr}
    /\ promo = NoPromo
    /\ promotions = 0

\* Rule(r) for one of the repeated requests
Repromote == RuleOf(RepeatRequests(envConfig), MaxRepeats)

\* Rule(r) returning an error after the nested document is saved: the root document
\* is not loaded, or not written after the link is added
RuleFailsAtRoot ==
    /\ promotions < MaxRepeats
    /\ nestedHelmfile
    /\ \E r \in RepeatRequests(envConfig) :
        \E resolved \in ChartDetails(r.AppName, ResolveRepositoryURL(r)) :
            /\ helmfile' = modifyHelmfileApps(r, helmfile, r.RuleNamespace,
                                              nestedHelmfile, resolved)
            /\ promo' = [outcome |-> "rootio", r |-> r, resolved |-> resolved,
                         before |-> helmfile, root |-> rootHelmfiles]
    /\ promotions' = promotions + 1
    /\ UNCHANGED <<nestedHelmfile, envConfig, rulePath, rootHelmfiles, rootHelmfiles0>>

----------------------------------------------------------------------------
(* Pull requests and labels: Create's label merge and addLabelsToPullRequest *)

\* const LabelUpdatebot
LabelUpdatebot == "updatebot"

\* label names callers ask for, and a label only other tools put on a pull request
LabelNames == {LabelUpdatebot, "promote"}
OtherLabel == "wip"

\* number of labels a caller passes in pullRequestDetails.Labels at most
MaxDetailLabels == 2

\* number of times the re-fetch is attempted before the backoff gives up
MaxFetchAttempts == 3

\* a nil *scm.PullRequest
NoPR ==
    [Number |-> 0, Source |-> "", Base |-> "", Title |-> <<>>, Body |-> <<>>,
     Labels |-> {}, Closed |-> FALSE, Merged |-> FALSE, Link |-> <<>>]

\* a remote call or git command, with its string and number arguments
Call(op, s, n) == [op |-> op, s |-> s, n |-> n]

Range(seq) == {seq[i] : i \in DOMAIN seq}

\* the elements of pullRequestDetails.Labels: nil, or a label with a name (that may be empty)
DetailLabels ==
    {[nil |-> TRUE, Name |-> ""]} \cup {[nil |-> FALSE, Name |-> n] : n \in LabelNames \cup {""}}

RECURSIVE LabelSeqsUpTo(_)
LabelSeqsUpTo(n) ==
    IF n = 0 THEN {<<>>}
    ELSE LET shorter == LabelSeqsUpTo(n - 1)
         IN shorter \cup {Append(q, l) : q \in shorter, l \in DetailLabels}

\* stringhelpers.StringArrayIndex: the first index of a string in a slice (from 0), -1 if absent
StringArrayIndex(labels, label) ==
    IF \E i \in DOMAIN labels : labels[i] = label
    THEN (CHOOSE i \in DOMAIN labels :
             labels[i] = label /\ \A j \in 1..(i - 1) : labels[j] # label) - 1
    ELSE -1

RECURSIVE MergeDetailLabels(_, _)
MergeDetailLabels(labels, details) ==
    IF details = <<>> THEN labels
    ELSE LET l == Head(details)
             merged == IF /\ ~l.nil
                          /\ l.Name # ""
                          /\ StringArrayIndex(labels, l.Name) < 0
                       THEN Append(labels, l.Name)
                       ELSE labels
         IN MergeDetailLabels(merged, Tail(details))

\* Create: o.Labels = nil, then "updatebot" if autoMerge, then the labels of the details
MergeLabels(autoMerge, details) ==
    MergeDetailLabels(IF autoMerge THEN <<LabelUpdatebot>> ELSE <<>>, details)

\* scmhelpers.ContainsLabel over the names of pr.Labels
ContainsLabel(labels, label) == label \in labels

\* a mutant of MissingLabels: every desired label is applied, carried or not
MissingLabelsAll(labels, pr) == labels

\* the labels the loop calls AddLabel for, in order: pr.Labels does not change in the loop
MissingLabels(labels, pr) ==
    SelectSeq(labels, LAMBDA l : ~ContainsLabel(pr.Labels, l))

\* the outcomes of the AddLabel calls: 0 when all succeed, else the call that fails
AddLabelOutcomes(labels, pr) == 0..Len(MissingLabels(labels, pr))

\* the outcomes of the re-fetch: the attempt that succeeds, 0 when every attempt fails
FetchOutcomes == 0..MaxFetchAttempts

\* addLabelsToPullRequest(pr) with o.Labels = labels, on a remote holding remotePr:
\* the PR and error returned, the remote PR afterwards, the remote calls made
addLabelsToPullRequest(labels, pr, remotePr, failAt, fetch) ==
    LET missing == MissingLabels(labels, pr)
        n == Len(missing)
        called == IF failAt = 0 THEN n ELSE failAt
        added == IF failAt = 0 THEN missing ELSE SubSeq(missing, 1, failAt - 1)
        addCalls == [i \in 1..called |-> Call("AddLabel", missing[i], pr.Number)]
        remote1 == [remotePr EXCEPT !.Labels = @ \cup Range(added)]
        attempts == IF fetch = 0 THEN MaxFetchAttempts ELSE fetch
        findCalls == [i \in 1..attempts |-> Call("Find", "", pr.Number)]
    IN IF failAt # 0
       THEN [pr |-> pr, err |-> "failed to add label", remotePr |-> remote1,
             calls |-> addCalls]
       ELSE IF n = 0
       THEN [pr |-> pr, err |-> "", remotePr |-> remotePr, calls |-> <<>>]
       ELSE IF fetch = 0
       THEN [pr |-> NoPR, err |-> "failed to lookup PullRequest", remotePr |-> remote1,
             calls |-> addCalls \o findCalls]
       ELSE [pr |-> remote1, err |-> "", remotePr |-> remote1,
             calls |-> addCalls \o findCalls]

NoLabelCall ==
    [autoMerge |-> FALSE, details |-> <<>>, labels |-> <<>>, given |-> NoPR,
     pr |-> NoPR, err |-> "", calls |-> <<>>]

\* a pull request as the remote returns it from Create, with the labels it has there
LabelInit ==
    /\ labelPr \in {[NoPR EXCEPT !.Number = 1, !.Source = "pr-1", !.Base = "main",
                                 !.Labels = ls] :
                        ls \in SUBSET (LabelNames \cup {OtherLabel})}
    /\ labelCall = NoLabelCall
    /\ labelCalls = 0

\* Create merges the labels and CreatePullRequest hands the PR to addLabelsToPullRequest,
\* once for a pull request
ReconcileLabels ==
    /\ labelCalls = 0
    /\ \E autoMerge \in BOOLEAN, details \in LabelSeqsUpTo(MaxDetailLabels) :
        LET labels == MergeLabels(autoMerge, details) IN
        \E failAt \in AddLabelOutcomes(labels, labelPr), fetch \in FetchOutcomes :
            LET res == addLabelsToPullRequest(labels, labelPr, labelPr, failAt, fetch) IN
            /\ labelCall' = [autoMerge |-> autoMerge, details |-> details,
                             labels |-> labels, given |-> labelPr,
                             pr |-> res.pr, err |-> res.err, calls |-> res.calls]
            /\ labelPr' = res.remotePr
    /\ labelCalls' = labelCalls + 1

LabelIdle ==
    /\ labelPr = NoPR /\ labelCall = NoLabelCall /\ labelCalls = 0

----------------------------------------------------------------------------
(* The environment pull request workflow: Create, FindExistingPullRequest, *)
(* checkoutExistingPullRequest and CreatePullRequest.                      *)
(* Texts (titles, bodies) are sequences of tokens, links are sequences of  *)
(* characters, branch and label names are strings.                         *)

\* number of Create calls in one behaviour
MaxRuns == 2

\* number of git or remote operations that fail in one behaviour
MaxFailures == 1

\* the versions a promotion can ask for
MaxVersion == 2

Versions == 1..MaxVersion

\* scm.Join(gitInfo.Organisation, gitInfo.Name) of the environment's git URL
RepoFullName == "org/env"

GitURL == "https://git.example/org/env"

\* the default branch of the environment repository
MainBranch == "main"

\* o.RemoteName when it is unset
OriginRemote == "origin"

\* a commit: its sha and the version its tree promotes; sha 0 is no commit
NoCommit == [sha |-> 0, tree |-> 0]

BranchNames == {MainBranch, RepoFullName} \cup {"pr-" \o ToString(i) : i \in 1..MaxRuns}

\* the name gitclient.CreateBranch makes up in the n-th Create call
FreshBranch(n) == "pr-" \o ToString(n)

\* the directory gitclient.CloneToDir makes up in the n-th Create call
CloneDir(n) == "clone-" \o ToString(n)

\* the directory ioutil.TempDir("", "create-pr") makes up
TempDirName == "create-pr"

NewLine == "\n"
Space == " "

\* strings.TrimSpace on a sequence of tokens
RECURSIVE TrimLeft(_)
TrimLeft(t) ==
    IF t # <<>> /\ Head(t) \in {Space, NewLine} THEN TrimLeft(Tail(t)) ELSE t

RECURSIVE TrimRight(_)
TrimRight(t) ==
    IF t # <<>> /\ t[Len(t)] \in {Space, NewLine}
    THEN TrimRight(SubSeq(t, 1, Len(t) - 1))
    ELSE t

TrimSpace(t) == TrimRight(TrimLeft(t))

\* strings.SplitN(body, sep, 2) for a separator that is one token
SepIndex(body, sep) ==
    IF \E i \in DOMAIN body : body[i] = sep
    THEN CHOOSE i \in DOMAIN body : body[i] = sep /\ \A j \in 1..(i - 1) : body[j] # sep
    ELSE 0

SplitN2(body, sep) ==
    LET i == SepIndex(body, sep)
    IN IF i = 0 THEN <<body>>
       ELSE <<SubSeq(body, 1, i - 1), SubSeq(body, i + 1, Len(body))>>

\* strings.TrimSuffix on character sequences
TrimSuffix(s, suffix) ==
    IF Len(s) >= Len(suffix) /\ SubSeq(s, Len(s) - Len(suffix) + 1, Len(s)) = suffix
    THEN SubSeq(s, 1, Len(s) - Len(suffix))
    ELSE s

sDiff == <<".", "d", "i", "f", "f">>

\* the link the remote gives pull request n
LinkOf(n) == <<"p", "r", "/", ToString(n)>> \o sDiff

\* fmt.Sprintf("\n# %s\n", o.Application)
ChangelogPrefixOf(application) == <<NewLine, "# " \o application, NewLine>>

\* o.PullRequestFilter: nil, or a filter with labels
NoFilter == [nil |-> TRUE, Labels |-> <<>>]
UpdatebotFilter == [nil |-> FALSE, Labels |-> <<LabelUpdatebot>>]

\* a label of pullRequestDetails.Labels
PromoteLabel == [nil |-> FALSE, Name |-> "promote"]

AllConfigs ==
    [gitURL : {GitURL},
     prDir : {""},
     autoMerge : BOOLEAN,
     details : {<<>>, <<PromoteLabel>>},
     PullRequestFilter : {NoFilter, UpdatebotFilter},
     Fork : BOOLEAN,
     GitToken : {TRUE},
     Function : {"nil", "edit", "commit"},
     BranchName : {"", RepoFullName},
     BaseBranchName : {""},
     Application : {"app"},
     CommitTitle : {<<Space, "chore: promote app", Space>>},
     CommitMessage : {<<"promote app">>},
     ChangelogSeparator : {"-----"},
     CommitChangelog : {<<"changes">>}]

\* the callers' inputs: the arguments of Create and the option fields set before the call
Configs ==
    {c \in AllConfigs : c.details = <<>> \/ c.autoMerge}

\* a caller that has no git URL for the environment
NoGitURLConfig ==
    [gitURL |-> "", prDir |-> "", autoMerge |-> FALSE, details |-> <<>>,
     PullRequestFilter |-> NoFilter, Fork |-> FALSE, GitToken |-> TRUE,
     Function |-> "edit", BranchName |-> "", BaseBranchName |-> "",
     Application |-> "app", CommitTitle |-> <<"chore: promote app">>,
     CommitMessage |-> <<"promote app">>, ChangelogSeparator |-> "-----",
     CommitChangelog |-> <<"changes">>]

\* an open promotion pull request made earlier from the branch named as the repository
EarlierPR ==
    [Number |-> 1, Source |-> RepoFullName, Base |-> MainBranch,
     Title |-> <<"chore: promote app">>,
     Body |-> <<"promote app", NewLine, "-----", NewLine, "# app", NewLine,
                NewLine, "earlier changes">>,
     Labels |-> {LabelUpdatebot}, Closed |-> FALSE, Merged |-> FALSE,
     Link |-> LinkOf(1)]

NoBranches == [b \in BranchNames |-> NoCommit]

\* the remote repository before the first Create call: main promotes version 1;
\* alone, or with an open promotion pull request for version 2
Remotes ==
    {[prs |-> <<>>,
      branches |-> [NoBranches EXCEPT ![MainBranch] = [sha |-> 1, tree |-> 1]]],
     [prs |-> <<EarlierPR>>,
      branches |-> [NoBranches EXCEPT ![MainBranch] = [sha |-> 1, tree |-> 1],
                                      ![RepoFullName] = [sha |-> 2, tree |-> 2]]]}

NoOptions ==
    [BranchName |-> "", BaseBranchName |-> "", RemoteName |-> "", Labels |-> <<>>,
     OutDir |-> ""]

\* a fresh EnvironmentPullRequestOptions as the caller configures it
OptionsOf(c) ==
    [NoOptions EXCEPT !.BranchName = c.BranchName, !.BaseBranchName = c.BaseBranchName]

NoGit == [cloned |-> FALSE, branch |-> "", head |-> NoCommit, work |-> 0]

NoRun ==
    [version |-> 0, listed |-> "no", existingPr |-> NoPR, tempDir |-> "",
     currentSha |-> 0, latestSha |-> 0, doneCommit |-> FALSE, changes |-> "unknown",
     existingPR |-> NoPR, base |-> "", baseBranch |-> "", changelogPrefix |-> <<>>,
     existingChangelog |-> FALSE, commitTitle |-> <<>>, commitBody |-> <<>>,
     openBefore |-> 0, pr |-> NoPR, failed |-> FALSE, panic |-> FALSE,
     result |-> NoPR, err |-> ""]

NoPrev == [valid |-> FALSE, version |-> 0, result |-> 0, failed |-> FALSE, ok |-> FALSE]

\* the summary of a Create call that has returned
PrevOf(r) ==
    [valid |-> TRUE, version |-> r.version, result |-> r.result.Number,
     failed |-> r.failed, ok |-> r.err = ""]

MaxOf(S) == CHOOSE x \in S : \A y \in S : y <= x

\* a sha no branch of the remote and no local commit has
FreshSha(rem, g) ==
    MaxOf({rem.branches[b].sha : b \in BranchNames} \cup {g.head.sha}) + 1

OpenPRs(rem) == {i \in DOMAIN rem.prs : ~rem.prs[i].Closed /\ ~rem.prs[i].Merged}

\* the operations of a step up to and including the one that fails
RECURSIVE UpTo(_, _)
UpTo(names, fail) ==
    IF names = <<>> THEN <<>>
    ELSE IF Head(names) = fail THEN <<fail>>
    ELSE <<Head(names)>> \o UpTo(Tail(names), fail)

\* the operation was reached, and it succeeded
Reached(names, fail, op) == op \in Range(UpTo(names, fail))
Passed(names, fail, op) == Reached(names, fail, op) /\ op # fail

\* the outcomes of a step: no operation fails, or one of its operations does
FailuresOf(names) ==
    {"none"} \cup (IF failures < MaxFailures THEN Range(names) ELSE {})

\* the deferred os.RemoveAll(tempDir) of Create
RemoveTempDir(dirs, r) == dirs \ {r.tempDir}

\* a mutant of SortByNumberDesc: the listing is taken in the order the remote gave it
NotSorted(prs) == prs

\* sort.Slice(prs, Number descending)
RECURSIVE SortByNumberDesc(_)
SortByNumberDesc(prs) ==
    IF prs = <<>> THEN <<>>
    ELSE LET m == CHOOSE i \in DOMAIN prs : \A j \in DOMAIN prs : prs[j].Number <= prs[i].Number
             rest == [k \in 1..(Len(prs) - 1) |-> IF k < m THEN prs[k] ELSE prs[k + 1]]
         IN <<prs[m]>> \o SortByNumberDesc(rest)

\* the filter loop's test of one listed pull request
Qualifies(pr, labels, repoFullName) ==
    /\ ~(pr.Closed \/ pr.Merged \/ pr.Source # repoFullName)
    /\ \E l \in pr.Labels : StringArrayIndex(labels, l) >= 0

RECURSIVE FirstQualifying(_, _, _)
FirstQualifying(prs, labels, repoFullName) ==
    IF prs = <<>> THEN NoPR
    ELSE IF Qualifies(Head(prs), labels, repoFullName) THEN Head(prs)
    ELSE FirstQualifying(Tail(prs), labels, repoFullName)

\* what PullRequests.List answers: the pull requests, "not found", or another error
ListOutcomes ==
    {"ok"} \cup (IF failures < MaxFailures THEN {"notfound", "error"} ELSE {})

ListedPRs(rem, outcome) == IF outcome = "ok" THEN rem.prs ELSE <<>>

\* FindExistingPullRequest: the pull request and the error it returns
FindExistingPullRequest(filter, prs, outcome, repoFullName) ==
    IF filter.nil THEN [pr |-> NoPR, err |-> ""]
    ELSE IF outcome = "notfound" \/ Len(prs) = 0 THEN [pr |-> NoPR, err |-> ""]
    ELSE [pr |-> FirstQualifying(SortByNumberDesc(prs), filter.Labels, repoFullName),
          err |-> ""]

\* a Create call returns
Return(r, pr, err) == [r EXCEPT !.result = pr, !.err = err]
Failed(r, err) == [r EXCEPT !.result = NoPR, !.err = err, !.failed = TRUE]

PRInit ==
    /\ cfg \in Configs \cup {NoGitURLConfig}
    /\ remote \in Remotes
    /\ o = NoOptions
    /\ git = NoGit
    /\ fs = {}
    /\ run = NoRun
    /\ pc = "idle"
    /\ ops = <<>>
    /\ prev = NoPrev
    /\ runs = 0
    /\ failures = 0

\* Create, first part: GetScmClient and FindExistingPullRequest
CreateLookup ==
    /\ pc \in {"idle", "done"}
    /\ runs < MaxRuns
    /\ runs' = runs + 1
    /\ prev' = IF pc = "done" THEN PrevOf(run) ELSE NoPrev
    /\ o' = OptionsOf(cfg)
    /\ git' = NoGit
    /\ \E version \in Versions :
        LET r0 == [NoRun EXCEPT !.version = version,
                                !.openBefore = Cardinality(OpenPRs(remote))] IN
        IF cfg.gitURL = ""
        THEN /\ run' = Return(r0, NoPR, "")
             /\ pc' = "done"
             /\ ops' = <<>>
             /\ failures' = failures
        ELSE \E fail \in FailuresOf(<<"GetScmClient">>) :
             IF fail # "none"
             THEN /\ run' = Failed(r0, "failed to create ScmClient")
                  /\ pc' = "done"
                  /\ ops' = <<>>
                  /\ failures' = failures + 1
             ELSE IF cfg.PullRequestFilter.nil
             THEN /\ run' = r0
                  /\ pc' = "clone"
                  /\ ops' = <<>>
                  /\ failures' = failures
             ELSE \E outcome \in ListOutcomes :
                  LET found == FindExistingPullRequest(cfg.PullRequestFilter,
                                   ListedPRs(remote, outcome), outcome, RepoFullName)
                      r1 == [r0 EXCEPT !.listed = outcome, !.existingPr = found.pr,
                                       !.failed = outcome # "ok"]
                  IN /\ ops' = <<Call("List", "", 0)>>
                     /\ failures' = IF outcome = "ok" THEN failures ELSE failures + 1
                     /\ IF found.err # ""
                        THEN run' = Return(r1, NoPR, "failed to find existing PullRequest")
                             /\ pc' = "done"
                        ELSE run' = r1 /\ pc' = "clone"
    /\ UNCHANGED <<cfg, remote, fs>>

\* a mutant of TrackedCommit: the clone stays on the default branch
TrackedCommitMain(rem, pr) == rem.branches[MainBranch]

\* the commit of the branch checkoutExistingPullRequest tracks: the pull request's source
TrackedCommit(rem, pr) == rem.branches[pr.Source]

\* the operations of Create between the lookup and the callback
CloneOps(c, existing) ==
    (IF c.prDir = "" THEN <<"TempDir">> ELSE <<>>)
    \o (IF c.Fork THEN <<"EnsureForked">> ELSE <<>>)
    \o (IF c.GitToken THEN <<"CreateAuthenticatedURL">> ELSE <<>>)
    \o <<"Clone">>
    \o (IF c.Fork THEN <<"Rebase">> ELSE <<>>)
    \o (IF existing # NoPR /\ existing.Source # "" THEN <<"Checkout">> ELSE <<>>)
    \o <<"GetLatestCommitSha">>

\* Create, second part: the temporary directory, the fork, the clone, the rebase of
\* the fork, checkoutExistingPullRequest and the sha before the callback
CreateClone ==
    /\ pc = "clone"
    /\ LET names == CloneOps(cfg, run.existingPr)
           existing == run.existingPr
       IN \E chosen \in FailuresOf(names) :
          LET \* git checkout --track fails when the remote has no such branch
              missing == /\ "Checkout" \in Range(names)
                         /\ TrackedCommit(remote, existing) = NoCommit
                         /\ Passed(names, chosen, "Checkout")
              fail == IF missing THEN "Checkout" ELSE chosen
              tracked == TrackedCommit(remote, existing)
              cloned == [cloned |-> TRUE, branch |-> MainBranch,
                         head |-> remote.branches[MainBranch],
                         work |-> remote.branches[MainBranch].tree]
              g == IF Passed(names, fail, "Checkout")
                   THEN [cloned EXCEPT !.branch = existing.Source, !.head = tracked,
                                       !.work = tracked.tree]
                   ELSE IF Passed(names, fail, "Clone") THEN cloned
                   ELSE NoGit
              outDir == IF Passed(names, fail, "Clone")
                           /\ (cfg.Fork => Passed(names, fail, "Rebase"))
                        THEN CloneDir(runs) ELSE ""
              o1 == [o EXCEPT !.OutDir = outDir]
              \* checkoutExistingPullRequest up to the checkout command
              o2 == IF existing # NoPR /\ outDir # ""
                    THEN IF existing.Source = ""
                         THEN [o1 EXCEPT !.RemoteName = OriginRemote]
                         ELSE [o1 EXCEPT !.RemoteName = OriginRemote,
                                         !.BaseBranchName = existing.Source,
                                         !.BranchName = existing.Source]
                    ELSE o1
              dirs == (fs \cup (IF Passed(names, fail, "TempDir") THEN {TempDirName} ELSE {}))
                         \cup (IF Passed(names, fail, "Clone") THEN {CloneDir(runs)} ELSE {})
              r1 == [run EXCEPT !.tempDir = IF Passed(names, fail, "TempDir")
                                            THEN TempDirName ELSE ""]
          IN /\ ops' = ops \o [i \in 1..Len(UpTo(names, fail)) |->
                                  Call(UpTo(names, fail)[i],
                                       IF UpTo(names, fail)[i] = "Checkout"
                                       THEN existing.Source ELSE "", 0)]
             /\ git' = g
             /\ o' = o2
             /\ failures' = IF chosen = "none" THEN failures ELSE failures + 1
             /\ IF fail = "none"
                THEN /\ run' = [r1 EXCEPT !.currentSha = g.head.sha]
                     /\ fs' = dirs
                     /\ pc' = "function"
                ELSE /\ run' = [Failed(r1, "failed at " \o fail) EXCEPT
                                   !.failed = chosen # "none" \/ run.failed]
                     /\ fs' = RemoveTempDir(dirs, r1)
                     /\ pc' = "done"
    /\ UNCHANGED <<cfg, remote, prev, runs>>

\* o.Function(): the callback edits the clone to promote the version;
\* a callback of kind "commit" also commits what it has changed
FunctionEffect(kind, g, version, sha) ==
    IF kind = "commit" /\ g.head.tree # version
    THEN [g EXCEPT !.work = version, !.head = [sha |-> sha, tree |-> version]]
    ELSE [g EXCEPT !.work = version]

\* gitclient.HasChanges: the working tree differs from HEAD
HasChanges(g) == g.work # g.head.tree

\* a mutant of DoneCommit: the change test is left out
DoneCommitAlways(latestSha, currentSha, changed) == TRUE

\* Create's doneCommit
DoneCommit(latestSha, currentSha, changed) ==
    IF latestSha = currentSha THEN changed ELSE TRUE

\* Create, third part: the callback, the label merge and the change detection
CreateMutate ==
    /\ pc = "function"
    /\ IF cfg.Function = "nil"
       THEN /\ run' = Return(run, NoPR, "no change function configured")
            /\ pc' = "done"
            /\ fs' = RemoveTempDir(fs, run)
            /\ UNCHANGED <<git, o, ops, failures>>
       ELSE LET g == FunctionEffect(cfg.Function, git, run.version, FreshSha(remote, git))
                names == <<"Function", "GetLatestCommitSha">>
                            \o (IF g.head.sha = run.currentSha THEN <<"HasChanges">> ELSE <<>>)
            IN \E fail \in FailuresOf(names) :
               /\ ops' = ops \o [i \in 1..Len(UpTo(names, fail)) |->
                                    Call(UpTo(names, fail)[i], "", 0)]
               /\ git' = IF Passed(names, fail, "Function") THEN g ELSE git
               /\ o' = IF Passed(names, fail, "Function")
                       THEN [o EXCEPT !.Labels = MergeLabels(cfg.autoMerge, cfg.details)]
                       ELSE o
               /\ IF fail = "none"
                  THEN /\ run' = [run EXCEPT
                                     !.latestSha = g.head.sha,
                                     !.doneCommit = DoneCommit(g.head.sha, run.currentSha,
                                                               HasChanges(g))]
                       /\ pc' = "cpr"
                       /\ fs' = fs
                       /\ failures' = failures
                  ELSE /\ run' = Failed(run, "failed at " \o fail)
                       /\ pc' = "done"
                       /\ fs' = RemoveTempDir(fs, run)
                       /\ failures' = failures + 1
    /\ UNCHANGED <<cfg, remote, prev, runs>>

\* CreatePullRequest's early return
NoChangesToPropose(changes, doneCommit) == ~changes /\ ~doneCommit

\* a mutant of ReusedBranch: the existing pull request's branch is not taken over
ReusedBranchNone(pr) == ""

\* the branch CreatePullRequest takes from the existing pull request
ReusedBranch(pr) == pr.Source

\* what git says about the remote's default branch: rev-parse answers; it fails and
\* remote show has a HEAD branch line; rev-parse answers with the remote's name only;
\* both fail; remote show has no HEAD branch line
BaseOutcomes ==
    {"revparse", "emptyrevparse"} \cup (IF failures < MaxFailures
                                        THEN {"remoteshow", "bothfail", "noheadline"}
                                        ELSE {})

\* a mutant of RemoteShowFails: without a HEAD branch line the resolution goes on
RemoteShowFailsOnError(base) == base = "bothfail"

\* the error returns of the remote show branch: the command fails, or its output has
\* no non-empty HEAD branch line
RemoteShowFails(base) == base \in {"bothfail", "noheadline"}

\* baseBranch once git was asked: the answer of rev-parse or the HEAD branch line,
\* and gitclient.Branch, the current local branch, when that left it empty
BaseBranchOf(base, given, local) ==
    CASE base = "given" -> given
      [] base \in {"revparse", "remoteshow"} -> MainBranch
      [] OTHER -> local

\* CreatePullRequest, first part: the change test, the existing pull request's
\* branch and changelog, the base branch and the new branch
CreatePullRequestBegin ==
    /\ pc = "cpr"
    /\ \E failHas \in FailuresOf(<<"HasChanges">>) :
       IF failHas # "none"
       THEN /\ run' = Failed(run, "failed to detect if there were git changes")
            /\ pc' = "done"
            /\ fs' = RemoveTempDir(fs, run)
            /\ failures' = failures + 1
            /\ UNCHANGED <<git, o, ops>>
       ELSE IF NoChangesToPropose(HasChanges(git), run.doneCommit)
       THEN /\ run' = Return([run EXCEPT !.changes = "no"], NoPR, "")
            /\ pc' = "done"
            /\ fs' = RemoveTempDir(fs, run)
            /\ UNCHANGED <<git, o, ops, failures>>
       ELSE IF run.existingPr # NoPR /\ run.existingPr.Source = ""
       THEN \* existingPR is set to nil and existingPR.Body is read next
            /\ run' = [Return(run, NoPR, "nil pointer dereference") EXCEPT
                          !.panic = TRUE, !.changes = "yes"]
            /\ pc' = "done"
            /\ fs' = RemoveTempDir(fs, run)
            /\ UNCHANGED <<git, o, ops, failures>>
       ELSE LET existing == run.existingPr
                parts == SplitN2(existing.Body, cfg.ChangelogSeparator)
                hasChangelog == existing # NoPR /\ Len(parts) = 2
                prefix == IF hasChangelog THEN parts[2]
                          ELSE ChangelogPrefixOf(cfg.Application)
                o1 == IF existing # NoPR
                      THEN [o EXCEPT !.RemoteName = IF @ = "" THEN OriginRemote ELSE @,
                                     !.BaseBranchName = existing.Base,
                                     !.BranchName = ReusedBranch(existing)]
                      ELSE o
                askGit == existing = NoPR /\ o1.BaseBranchName = ""
                o2 == IF askGit /\ o1.RemoteName = ""
                      THEN [o1 EXCEPT !.RemoteName = OriginRemote] ELSE o1
                r1 == [run EXCEPT !.changes = IF HasChanges(git) THEN "yes" ELSE "no",
                                  !.existingPR = existing,
                                  !.changelogPrefix = prefix,
                                  !.existingChangelog = hasChangelog]
            IN \E base \in (IF askGit THEN BaseOutcomes ELSE {"given"}) :
               LET baseOps ==
                       CASE base = "given" -> <<>>
                         [] base \in {"revparse", "emptyrevparse"} -> <<"RevParse">>
                         [] OTHER -> <<"RevParse", "RemoteShow">>
                   baseBranch == BaseBranchOf(base, o1.BaseBranchName, git.branch)
                   branchOps == IF base \in {"given", "revparse", "remoteshow"}
                                THEN <<>> ELSE <<"Branch">>
                   r2 == [r1 EXCEPT !.base = base]
                   createOps == IF o2.BranchName = "" THEN <<"CreateBranch">> ELSE <<>>
                   logged(names) == [i \in 1..Len(names) |-> Call(names[i], "", 0)]
               IN IF RemoteShowFails(base)
                  THEN /\ run' = Failed(r2, "failed to get the remote branch name")
                       /\ pc' = "done"
                       /\ fs' = RemoveTempDir(fs, run)
                       /\ failures' = failures + 1
                       /\ ops' = ops \o logged(baseOps)
                       /\ o' = o2
                       /\ git' = git
                  ELSE \E fail \in (IF base = "remoteshow"
                                    THEN {"none"}
                                    ELSE FailuresOf(branchOps \o createOps)) :
                       /\ ops' = ops \o logged(baseOps)
                                     \o logged(UpTo(branchOps \o createOps, fail))
                       /\ failures' = IF base # "remoteshow" /\ fail = "none"
                                      THEN failures ELSE failures + 1
                       /\ IF fail = "none"
                          THEN /\ run' = [r2 EXCEPT
                                             !.baseBranch = baseBranch,
                                             !.failed = base \notin {"given", "revparse"}
                                                           \/ run.failed]
                               /\ o' = IF o2.BranchName = ""
                                       THEN [o2 EXCEPT !.BranchName = FreshBranch(runs)]
                                       ELSE o2
                               /\ git' = IF o2.BranchName = ""
                                         THEN [git EXCEPT !.branch = FreshBranch(runs)]
                                         ELSE git
                               /\ pc' = "commit"
                               /\ fs' = fs
                          ELSE /\ run' = Failed(r2, "failed at " \o fail)
                               /\ o' = o2
                               /\ git' = git
                               /\ pc' = "done"
                               /\ fs' = RemoveTempDir(fs, run)
    /\ UNCHANGED <<cfg, remote, prev, runs>>

\* o.CommitChangelog as the caller sets it for one promotion: the changelog of the
\* version that is promoted
ChangelogOf(c, version) == c.CommitChangelog \o <<"version " \o ToString(version)>>

\* a mutant of CommitBody: the changelog section of the existing body is left out
CommitBodyFresh(c, existingChangelog, changelogPrefix) ==
    c.CommitMessage \o <<NewLine>> \o <<c.ChangelogSeparator>>
        \o ChangelogPrefixOf(c.Application) \o <<NewLine>> \o c.CommitChangelog

\* the pull request body: the commit message, then the changelog under the separator
CommitBody(c, existingChangelog, changelogPrefix) ==
    IF existingChangelog \/ c.CommitChangelog # <<>>
    THEN c.CommitMessage \o <<NewLine>> \o <<c.ChangelogSeparator>> \o changelogPrefix
            \o <<NewLine>> \o c.CommitChangelog
    ELSE c.CommitMessage

\* gitclient.AddAndCommitFiles: a commit of the working tree when it differs from HEAD
AddAndCommitFiles(g, sha) ==
    IF HasChanges(g) THEN [g EXCEPT !.head = [sha |-> sha, tree |-> g.work]] ELSE g

\* gitclient.ForcePushBranch(dir, "HEAD", branch)
ForcePushBranch(rem, g, branch) == [rem EXCEPT !.branches[branch] = g.head]

\* CreatePullRequest, second part: the commit and the forced push
CommitAndPush ==
    /\ pc = "commit"
    /\ LET names == <<"Commit", "Push">>
           g == AddAndCommitFiles(git, FreshSha(remote, git))
           r1 == [run EXCEPT !.commitTitle = TrimSpace(cfg.CommitTitle),
                             !.commitBody =
                                 CommitBody([cfg EXCEPT !.CommitChangelog =
                                                            ChangelogOf(cfg, run.version)],
                                            run.existingChangelog, run.changelogPrefix)]
       IN \E fail \in FailuresOf(names) :
          /\ ops' = ops \o [i \in 1..Len(UpTo(names, fail)) |->
                               Call(UpTo(names, fail)[i],
                                    IF UpTo(names, fail)[i] = "Push" THEN o.BranchName ELSE "",
                                    0)]
          /\ git' = IF Passed(names, fail, "Commit") THEN g ELSE git
          /\ remote' = IF Passed(names, fail, "Push")
                       THEN ForcePushBranch(remote, g, o.BranchName) ELSE remote
          /\ IF fail = "none"
             THEN /\ run' = r1
                  /\ pc' = "submit"
                  /\ fs' = fs
                  /\ failures' = failures
             ELSE /\ run' = Failed(r1, "failed at " \o fail)
                  /\ pc' = "done"
                  /\ fs' = RemoveTempDir(fs, run)
                  /\ failures' = failures + 1
    /\ UNCHANGED <<cfg, o, prev, runs>>

\* PullRequests.Update on the remote
UpdatePR(rem, number, title, body) ==
    [rem EXCEPT !.prs[number].Title = title, !.prs[number].Body = body]

\* PullRequests.Create on the remote: the new pull request gets the next number
NewPR(rem, head, base, title, body) ==
    [Number |-> Len(rem.prs) + 1, Source |-> head, Base |-> base, Title |-> title,
     Body |-> body, Labels |-> {}, Closed |-> FALSE, Merged |-> FALSE,
     Link |-> LinkOf(Len(rem.prs) + 1)]

\* the remote refuses a second open pull request from the same branch into the same base
Refused(rem, head, base) ==
    \E i \in OpenPRs(rem) : rem.prs[i].Source = head /\ rem.prs[i].Base = base

\* CreatePullRequest, third part: the update of the existing pull request,
\* or the creation of a new one
Submit ==
    /\ pc = "submit"
    /\ IF run.existingPR # NoPR
       THEN \E fail \in FailuresOf(<<"Update">>) :
            /\ ops' = Append(ops, Call("Update", "", run.existingPR.Number))
            /\ pc' = "done"
            /\ fs' = RemoveTempDir(fs, run)
            /\ IF fail = "none"
               THEN LET rem == UpdatePR(remote, run.existingPR.Number,
                                        run.commitTitle, run.commitBody)
                    IN /\ remote' = rem
                       /\ run' = Return(run, rem.prs[run.existingPR.Number], "")
                       /\ failures' = failures
               ELSE /\ remote' = remote
                    /\ run' = Failed(run, "failed to update PullRequest")
                    /\ failures' = failures + 1
       ELSE LET names == (IF cfg.Fork THEN <<"UsersFind">> ELSE <<>>) \o <<"CreatePR">>
                created == NewPR(remote, o.BranchName, run.baseBranch,
                                 run.commitTitle, run.commitBody)
            IN \E chosen \in FailuresOf(names) :
               LET refused == /\ Passed(names, chosen, "CreatePR")
                              /\ Refused(remote, o.BranchName, run.baseBranch)
                   fail == IF refused THEN "CreatePR" ELSE chosen
               IN /\ ops' = ops \o [i \in 1..Len(UpTo(names, fail)) |->
                                       Call(UpTo(names, fail)[i],
                                            IF UpTo(names, fail)[i] = "CreatePR"
                                            THEN o.BranchName ELSE "", 0)]
                  /\ failures' = IF chosen = "none" THEN failures ELSE failures + 1
                  /\ IF fail = "none"
                     THEN /\ remote' = [remote EXCEPT !.prs = Append(@, created)]
                          /\ run' = [run EXCEPT
                                        !.pr = [created EXCEPT
                                                   !.Link = TrimSuffix(@, sDiff)]]
                          /\ pc' = "labels"
                          /\ fs' = fs
                     ELSE /\ remote' = remote
                          /\ run' = [Failed(run, "failed at " \o fail) EXCEPT
                                        !.failed = chosen # "none" \/ run.failed]
                          /\ pc' = "done"
                          /\ fs' = RemoveTempDir(fs, run)
    /\ UNCHANGED <<cfg, o, git, prev, runs>>

\* CreatePullRequest, last part: addLabelsToPullRequest on the new pull request
AddLabels ==
    /\ pc = "labels"
    /\ \E failAt \in AddLabelOutcomes(o.Labels, run.pr), fetch \in FetchOutcomes :
        LET n == run.pr.Number
            res == addLabelsToPullRequest(o.Labels, run.pr, remote.prs[n], failAt, fetch)
            clean == failAt = 0 /\ fetch = 1
        IN /\ clean \/ failures < MaxFailures
           /\ (Len(MissingLabels(o.Labels, run.pr)) = 0 => fetch = 1)
           /\ remote' = [remote EXCEPT !.prs[n] = res.remotePr]
           /\ ops' = ops \o res.calls
           /\ run' = [Return(run, res.pr, res.err) EXCEPT !.failed = ~clean \/ run.failed]
           /\ failures' = IF clean THEN failures ELSE failures + 1
    /\ pc' = "done"
    /\ fs' = RemoveTempDir(fs, run)
    /\ UNCHANGED <<cfg, o, git, prev, runs>>

PRIdle ==
    /\ cfg = NoGitURLConfig /\ remote = [prs |-> <<>>, branches |-> NoBranches]
    /\ o = NoOptions /\ git = NoGit /\ fs = {} /\ run = NoRun /\ pc = "idle"
    /\ ops = <<>> /\ prev = NoPrev /\ runs = 0 /\ failures = 0

----------------------------------------------------------------------------
(* FindExistingPullRequest on its own: what it selects from a listing *)

\* number of pull requests the remote lists at most
MaxListed == 2

\* a pull request the remote lists: open, closed or merged, from the branch named as
\* the repository or from another branch, with a filter label or another label
ListedPRs0(n) ==
    {[EarlierPR EXCEPT !.Number = n, !.Link = LinkOf(n), !.Closed = st = "closed",
                       !.Merged = st = "merged", !.Source = src, !.Labels = ls] :
        st \in {"open", "closed", "merged"},
        src \in {RepoFullName, FreshBranch(1)},
        ls \in {{LabelUpdatebot}, {OtherLabel}}}

\* the listings of n pull requests numbered 1..n, in any order
Listings(n) ==
    {l \in [1..n -> UNION {ListedPRs0(k) : k \in 1..n}] :
        \A i, j \in 1..n : i # j => l[i].Number # l[j].Number}

FindInit ==
    /\ cfg \in {c \in Configs : c.Function = "edit" /\ ~c.Fork /\ ~c.autoMerge
                                /\ c.BranchName = ""}
    /\ remote \in {[prs |-> l,
                    branches |-> [NoBranches EXCEPT ![MainBranch] = [sha |-> 1, tree |-> 1]]] :
                      l \in UNION {Listings(n) : n \in 0..MaxListed}}
    /\ o = NoOptions
    /\ git = NoGit
    /\ fs = {}
    /\ run = NoRun
    /\ pc = "idle"
    /\ ops = <<>>
    /\ prev = NoPrev
    /\ runs = 0
    /\ failures = 0

----------------------------------------------------------------------------
(* CreatePullRequest on its own: a caller hands it a clone and a pull request *)

\* an open pull request the scm client reports without a source branch
SourcelessPR == [EarlierPR EXCEPT !.Source = ""]

\* the state at the entry of CreatePullRequest: the caller has cloned the repository at
\* main into a directory of its own, has edited it to the version or left it alone, and
\* passes no pull request, one with a source branch, or one without
DirectInit ==
    /\ cfg \in {c \in Configs : c.Function = "edit" /\ c.PullRequestFilter = NoFilter}
    /\ \E existing \in {NoPR, EarlierPR, SourcelessPR}, version \in Versions,
          doneCommit \in BOOLEAN :
        /\ remote = [prs |-> IF existing = NoPR THEN <<>> ELSE <<existing>>,
                     branches |-> IF existing = EarlierPR
                                  THEN [NoBranches EXCEPT
                                           ![MainBranch] = [sha |-> 1, tree |-> 1],
                                           ![RepoFullName] = [sha |-> 2, tree |-> 2]]
                                  ELSE [NoBranches EXCEPT
                                           ![MainBranch] = [sha |-> 1, tree |-> 1]]]
        /\ git = [cloned |-> TRUE, branch |-> MainBranch,
                  head |-> [sha |-> 1, tree |-> 1], work |-> version]
        /\ run = [NoRun EXCEPT !.version = version, !.existingPr = existing,
                               !.currentSha = 1, !.latestSha = 1,
                               !.doneCommit = doneCommit,
                               !.openBefore = IF existing = NoPR THEN 0 ELSE 1]
    /\ o = [OptionsOf(cfg) EXCEPT !.Labels = MergeLabels(cfg.autoMerge, cfg.details)]
    /\ fs = {}
    /\ pc = "cpr"
    /\ ops = <<>>
    /\ prev = NoPrev
    /\ runs = 1
    /\ failures = 0
----------------------------------------------------------------------------
(* Specifications: one for each part of the program, the other parts at rest *)

HelmIdle ==
    /\ helmfile = << >> /\ nestedHelmfile = FALSE /\ envConfig = << >>
    /\ promo = NoPromo /\ promotions = 0
    /\ rulePath = << >> /\ rootHelmfiles = << >> /\ rootHelmfiles0 = << >>

PrefixIdle ==
    /\ registry = <<>> /\ registry0 = <<>> /\ chartKind = "nil" /\ allocs = <<>>

HelmNext ==
    \/ Rule /\ UNCHANGED <<prefixVars, labelVars, prVars>>
    \/ RuleFails /\ UNCHANGED <<prefixVars, labelVars, prVars>>

InitHelm == HelmInit /\ PrefixIdle /\ LabelIdle /\ PRIdle

SpecHelm == InitHelm /\ [][HelmNext]_vars

PrefixNext == Allocate /\ UNCHANGED <<helmVars, labelVars, prVars>>

InitPrefix == PrefixInit /\ HelmIdle /\ LabelIdle /\ PRIdle

SpecPrefix == InitPrefix /\ [][PrefixNext]_vars

LabelNext == ReconcileLabels /\ UNCHANGED <<helmVars, prefixVars, prVars>>

InitLabels == LabelInit /\ HelmIdle /\ PrefixIdle /\ PRIdle

SpecLabels == InitLabels /\ [][LabelNext]_vars

PRNext ==
    \/ CreateLookup /\ UNCHANGED <<helmVars, prefixVars, labelVars>>
    \/ CreateClone /\ UNCHANGED <<helmVars, prefixVars, labelVars>>
    \/ CreateMutate /\ UNCHANGED <<helmVars, prefixVars, labelVars>>
    \/ CreatePullRequestBegin /\ UNCHANGED <<helmVars, prefixVars, labelVars>>
    \/ CommitAndPush /\ UNCHANGED <<helmVars, prefixVars, labelVars>>
    \/ Submit /\ UNCHANGED <<helmVars, prefixVars, labelVars>>
    \/ AddLabels /\ UNCHANGED <<helmVars, prefixVars, labelVars>>

InitPR == PRInit /\ HelmIdle /\ PrefixIdle /\ LabelIdle

SpecPR == InitPR /\ [][PRNext]_vars

FindNext == CreateLookup /\ UNCHANGED <<helmVars, prefixVars, labelVars>>

InitFind == FindInit /\ HelmIdle /\ PrefixIdle /\ LabelIdle

SpecFind == InitFind /\ [][FindNext]_vars


RepeatNext ==
    \/ Repromote /\ UNCHANGED <<prefixVars, labelVars, prVars>>
    \/ RuleFailsOf(MaxRepeats) /\ UNCHANGED <<prefixVars, labelVars, prVars>>
    \/ RuleFailsAtRoot /\ UNCHANGED <<prefixVars, labelVars, prVars>>

InitRepeat == RepeatInit /\ PrefixIdle /\ LabelIdle /\ PRIdle

SpecRepeat == InitRepeat /\ [][RepeatNext]_vars

DirectNext ==
    \/ CreatePullRequestBegin /\ UNCHANGED <<helmVars, prefixVars, labelVars>>
    \/ CommitAndPush /\ UNCHANGED <<helmVars, prefixVars, labelVars>>
    \/ Submit /\ UNCHANGED <<helmVars, prefixVars, labelVars>>
    \/ AddLabels /\ UNCHANGED <<helmVars, prefixVars, labelVars>>

InitDirect == DirectInit /\ HelmIdle /\ PrefixIdle /\ LabelIdle

SpecDirect == InitDirect /\ [][DirectNext]_vars

----------------------------------------------------------------------------
(* Properties of the helmfile rule, over the last promotion applied *)

Promoted == promo.outcome = "ok"
PromoteNs == ResolveNamespace(promo.r, promo.r.RuleNamespace)
KeptOld == KeepOldReleases(promo.r, promo.resolved)
Before == promo.before.Releases
After == helmfile.Releases

\* the namespace condition of the matcher: none for a nested document
NamespaceCondition(release) ==
    nestedHelmfile \/ release.Namespace = PromoteNs \/ promo.r.RemoteCluster

MatchesAppName(release) ==
    release.Name = promo.r.AppName /\ NamespaceCondition(release)

MatchesReleaseName(release) ==
    /\ promo.r.ReleaseName # EmptyStr
    /\ release.Name = promo.r.ReleaseName
    /\ NamespaceCondition(release)

\* the releases of the document before, with the version of release m set
VersionSetAt(m) ==
    [i \in 1..Len(Before) |->
        IF i = m
        THEN [Name |-> Before[i].Name, Chart |-> Before[i].Chart,
              Namespace |-> Before[i].Namespace, Version |-> promo.r.Version]
        ELSE Before[i]]

\* C4: with keep-old-releases off, when one declaration matches by app name only and
\* another by the explicit release name, the version is set on a declaration that
\* matches the release name, whichever comes first, and on no other declaration
C4_ExplicitNamePrecedence ==
    (/\ Promoted
     /\ ~KeptOld
     /\ \E a, b \in 1..Len(Before) :
            /\ a # b
            /\ MatchesAppName(Before[a]) /\ ~MatchesReleaseName(Before[a])
            /\ MatchesReleaseName(Before[b]))
    => \E m \in 1..Len(Before) :
            /\ MatchesReleaseName(Before[m])
            /\ After = VersionSetAt(m)
            /\ \A a \in 1..Len(Before) :
                    MatchesAppName(Before[a]) /\ ~MatchesReleaseName(Before[a])
                    => After[a] = Before[a]

\* the app name match comes first in a flat document, the release name match second,
\* and the second one has been promoted
C4_Witness ==
    /\ Promoted /\ ~KeptOld /\ ~nestedHelmfile
    /\ Len(Before) = 2
    /\ MatchesAppName(Before[1]) /\ ~MatchesReleaseName(Before[1])
    /\ MatchesReleaseName(Before[2])
    /\ After[2].Version = promo.r.Version
    /\ After[1].Version = v100

\* the name an appended release must have when old releases are kept: the release name
\* if given, else the local chart name, then "-", then the version with "-" for "."
IsKeepOldName(name) ==
    LET base == IF promo.r.ReleaseName # EmptyStr THEN promo.r.ReleaseName
                ELSE promo.resolved.LocalName
        version == promo.r.Version
    IN  /\ Len(name) = Len(base) + 1 + Len(version)
        /\ \A i \in 1..Len(base) : name[i] = base[i]
        /\ name[Len(base) + 1] = "-"
        /\ \A i \in 1..Len(version) :
                name[Len(base) + 1 + i] = IF version[i] = "." THEN "-" ELSE version[i]

\* C5: when keep-old-releases resolves true, a promotion changes no existing declaration
\* and appends exactly one, named <release or local chart name>-<version, dots as dashes>
C5_KeepOldForcesAppend ==
    (Promoted /\ KeptOld)
    => /\ Len(After) = Len(Before) + 1
       /\ \A i \in 1..Len(Before) : After[i] = Before[i]
       /\ IsKeepOldName(After[Len(After)].Name)
       /\ After[Len(After)].Version = promo.r.Version

\* release foo exists in the requested namespace, version 2.0.0 is promoted with old
\* releases kept: foo-2-0-0 is appended and foo is as it was
C5_Witness ==
    /\ Promoted /\ KeptOld
    /\ Len(Before) = 1
    /\ Before[1].Name = sFoo /\ MatchesAppName(Before[1])
    /\ promo.r.Version = v200
    /\ Len(After) = 2
    /\ After[1] = Before[1]
    /\ After[2].Name = sFoo200

\* C6: when the matcher selects a declaration, only the version of one matching
\* declaration changes: same length and order, every other field and declaration kept
C6_UpdatePathFrame ==
    (/\ Promoted
     /\ ~KeptOld
     /\ \E i \in 1..Len(Before) :
            MatchesAppName(Before[i]) \/ MatchesReleaseName(Before[i]))
    => \E m \in 1..Len(Before) :
            /\ MatchesAppName(Before[m]) \/ MatchesReleaseName(Before[m])
            /\ After = VersionSetAt(m)

\* releases [{foo, jx, 1.0.0}], request {foo, 1.2.0, jx}: one release foo at 1.2.0
C6_Witness ==
    /\ Promoted /\ ~KeptOld /\ ~nestedHelmfile
    /\ Len(Before) = 1
    /\ Before[1].Name = sFoo /\ Before[1].Namespace = sJx /\ Before[1].Version = v100
    /\ promo.r.AppName = sFoo /\ promo.r.Version = v120 /\ PromoteNs = sJx
    /\ After = <<[Name |-> sFoo, Chart |-> Before[1].Chart, Namespace |-> sJx,
                  Version |-> v120]>>

\* C7: in a nested document, the first release of a document without overrideNamespace
\* makes the requested namespace the overrideNamespace and has no namespace of its own;
\* a set overrideNamespace, or the one of a document with releases, never changes; an
\* appended release has no namespace exactly when the requested one is the override
C7_FirstReleaseRule ==
    (Promoted /\ nestedHelmfile)
    => /\ (Len(Before) = 0 /\ promo.before.OverrideNamespace = EmptyStr)
            => /\ helmfile.OverrideNamespace = PromoteNs
               /\ Len(After) = 1
               /\ After[1].Namespace = EmptyStr
       /\ (promo.before.OverrideNamespace # EmptyStr \/ Len(Before) > 0)
            => helmfile.OverrideNamespace = promo.before.OverrideNamespace
       /\ Len(After) = Len(Before) + 1
            => After[Len(After)].Namespace =
                    IF PromoteNs = helmfile.OverrideNamespace THEN EmptyStr
                    ELSE PromoteNs

\* an empty nested document without override has received its first release, in staging
C7_Witness ==
    /\ Promoted /\ nestedHelmfile
    /\ Len(Before) = 0 /\ promo.before.OverrideNamespace = EmptyStr
    /\ PromoteNs = sStaging
    /\ helmfile.OverrideNamespace = sStaging
    /\ Len(After) = 1 /\ After[1].Namespace = EmptyStr

----------------------------------------------------------------------------
(* Properties of the prefix allocator, over the calls made so far *)

Aliases(repos) == {repos[k].Name : k \in 1..Len(repos)}
Urls(repos) == {repos[k].URL : k \in 1..Len(repos)}

\* the target URL of call i as given, and as the registry records it
GivenUrl(i) == allocs[i].target.Repository
StrippedUrl(i) ==
    IF Len(GivenUrl(i)) >= 6 /\ SubSeq(GivenUrl(i), 1, 6) = <<"o", "c", "i", ":", "/", "/">>
    THEN SubSeq(GivenUrl(i), 7, Len(GivenUrl(i)))
    ELSE GivenUrl(i)

\* what the claim concludes of N allocations: distinct fresh aliases, N entries appended
\* in call order after the original ones, whose alias and URL are as they were
CollisionFree ==
    LET N == Len(allocs)
        L == Len(registry0)
    IN  /\ \A i, j \in 1..N : i # j => allocs[i].d.Prefix # allocs[j].d.Prefix
        /\ \A i \in 1..N : allocs[i].d.Prefix \notin Aliases(registry0)
        /\ Len(registry) = L + N
        /\ \A k \in 1..L : /\ registry[k].Name = registry0[k].Name
                           /\ registry[k].URL = registry0[k].URL
        /\ \A i \in 1..N : /\ registry[L + i].Name = allocs[i].d.Prefix
                           /\ registry[L + i].URL = StrippedUrl(i)

\* C8 as stated: the registry holds the alias dev, and the calls were made with an empty
\* prefix for URLs that are pairwise distinct as given and that the starting registry
\* does not hold (with or without their oci:// prefix)
C8_CollisionFreeAsStated ==
    (/\ sDev \in Aliases(registry0)
     /\ \A i \in 1..Len(allocs) :
            /\ allocs[i].target.Prefix = EmptyStr
            /\ GivenUrl(i) \notin Urls(registry0)
            /\ StrippedUrl(i) \notin Urls(registry0)
     /\ \A i, j \in 1..Len(allocs) : i # j => GivenUrl(i) # GivenUrl(j))
    => CollisionFree

\* C8 (amended): the same, for URLs that are pairwise distinct once their oci:// prefix
\* is stripped
C8_CollisionFree ==
    (/\ sDev \in Aliases(registry0)
     /\ \A i \in 1..Len(allocs) :
            /\ allocs[i].target.Prefix = EmptyStr
            /\ StrippedUrl(i) \notin Urls(registry0)
     /\ \A i, j \in 1..Len(allocs) : i # j => StrippedUrl(i) # StrippedUrl(j))
    => CollisionFree

\* dev and dev2 are taken, two new URLs were registered: the probe went past dev2 twice
C8_Witness ==
    /\ {sDev, sDev2} \subseteq Aliases(registry0)
    /\ Len(allocs) = 2
    /\ \A i \in 1..2 : /\ allocs[i].target.Prefix = EmptyStr
                       /\ StrippedUrl(i) \notin Urls(allocs[i].before)
    /\ StrippedUrl(1) # StrippedUrl(2)
    /\ allocs[1].d.Prefix = <<"d", "e", "v", "3">>
    /\ allocs[2].d.Prefix = <<"d", "e", "v", "4">>
    /\ Len(registry) = 4

----------------------------------------------------------------------------
(* Properties of the label reconciliation, over the last call made *)

LabelsReconciled == labelCalls > 0
DesiredLabels == Range(labelCall.labels)
CarriedLabels == labelCall.given.Labels
AddLabelCallsFor(l) ==
    {i \in DOMAIN labelCall.calls :
        labelCall.calls[i].op = "AddLabel" /\ labelCall.calls[i].s = l}
AddLabelFailed == labelCall.err = "failed to add label"

\* C9: addLabelsToPullRequest calls AddLabel at most once for a label, only for
\* desired labels the given pull request does not carry, and for each of them when
\* no AddLabel call fails; with no desired label missing it makes no remote call and
\* returns the pull request it was given; when it returns without error the
\* returned pull request carries every desired label; and no label the pull request
\* had on the remote is removed.
C9_LabelReconciliationMonotone ==
    LabelsReconciled =>
        /\ \A l \in LabelNames \cup {OtherLabel, ""} :
            /\ Cardinality(AddLabelCallsFor(l)) <= 1
            /\ AddLabelCallsFor(l) # {} => l \in DesiredLabels \ CarriedLabels
            /\ (l \in DesiredLabels \ CarriedLabels /\ ~AddLabelFailed)
                   => Cardinality(AddLabelCallsFor(l)) = 1
        /\ DesiredLabels \subseteq CarriedLabels =>
            /\ labelCall.calls = <<>>
            /\ labelCall.pr = labelCall.given
            /\ labelCall.err = ""
        /\ labelCall.err = "" => DesiredLabels \subseteq labelCall.pr.Labels
        /\ CarriedLabels \subseteq labelPr.Labels

\* a pull request carrying "promote" and "wip" is reconciled with the desired labels
\* "updatebot" and "promote": one AddLabel call, for "updatebot", and the re-fetched
\* pull request carries all three
C9_Witness ==
    /\ LabelsReconciled
    /\ labelCall.labels = <<LabelUpdatebot, "promote">>
    /\ CarriedLabels = {"promote", OtherLabel}
    /\ labelCall.err = ""
    /\ Cardinality(AddLabelCallsFor(LabelUpdatebot)) = 1
    /\ AddLabelCallsFor("promote") = {}
    /\ labelCall.pr.Labels = {LabelUpdatebot, "promote", OtherLabel}

----------------------------------------------------------------------------
(* Properties of the pull request workflow, over the Create call in progress *)
(* or just returned, and the summary of the call before it                 *)

CreateReturned == pc = "done"
Did(op) == \E i \in DOMAIN ops : ops[i].op = op
ChangingOps == {"CreateBranch", "Commit", "Push", "CreatePR", "Update", "AddLabel"}
DidNoChange == \A i \in DOMAIN ops : ops[i].op \notin ChangingOps
ReturnedNoPR == run.result = NoPR /\ run.err = ""

\* the call before this one got the same inputs and returned without error, and no
\* operation has failed in either call
SecondOfTwoRuns ==
    /\ CreateReturned
    /\ prev.valid
    /\ prev.ok
    /\ prev.version = run.version
    /\ failures = 0

\* C1 as stated: the second of two Create calls with identical inputs, when it
\* returns without error, returns no pull request and has made no commit, push or
\* pull request, whatever the configuration.
C1_IdempotentAsStated ==
    (SecondOfTwoRuns /\ run.err = "") => ReturnedNoPR /\ DidNoChange

\* C1: when no git or remote operation fails, the second of two Create calls with
\* identical inputs returns no pull request and no error, and makes no branch,
\* commit, push, pull request or label call, provided the first call returned no
\* pull request or the second call's lookup finds the pull request the first call
\* returned.
C1_IdempotentWhenFound ==
    (SecondOfTwoRuns /\ (prev.result = 0 \/ run.existingPr.Number = prev.result))
        => ReturnedNoPR /\ DidNoChange

\* the first call created pull request 1 from the branch named as the repository and
\* labelled it; the second call finds it, checks its branch out and has nothing to do
C1_Witness ==
    /\ SecondOfTwoRuns
    /\ prev.result = 1
    /\ run.existingPr.Number = 1
    /\ run.existingPr.Labels = {LabelUpdatebot}
    /\ run.existingPr.Title = <<"chore: promote app">>
    /\ remote.branches[RepoFullName].tree = run.version
    /\ Len(remote.prs) = 1
    /\ Did("Checkout") /\ Did("Function")
    /\ ReturnedNoPR

\* the lookup returned an open pull request with a source branch, and the callback
\* produced a change
ReusesExistingPR ==
    /\ run.existingPr # NoPR
    /\ ~run.existingPr.Closed
    /\ run.existingPr.Source # ""
    /\ run.doneCommit

\* C2: a call that found an open pull request with a source branch and whose callback
\* produced a change never creates a branch or a pull request, pushes only to that
\* pull request's source branch and updates only that pull request; when it returns
\* without error it has pushed HEAD there, has updated the pull request with the new
\* title and body, returns it as the remote has it, with the base it had, and the
\* number of open pull requests is what it was before the call.
C2_ReusesExistingPR ==
    ReusesExistingPR =>
        /\ ~Did("CreatePR") /\ ~Did("CreateBranch")
        /\ \A i \in DOMAIN ops :
            /\ ops[i].op = "Push" => ops[i].s = run.existingPr.Source
            /\ ops[i].op = "Update" => ops[i].n = run.existingPr.Number
        /\ Cardinality(OpenPRs(remote)) = run.openBefore
        /\ (CreateReturned /\ run.err = "") =>
            /\ Did("Push") /\ Did("Update")
            /\ remote.branches[run.existingPr.Source] = git.head
            /\ git.head.tree = run.version
            /\ run.result = remote.prs[run.existingPr.Number]
            /\ run.result.Number = run.existingPr.Number
            /\ run.result.Title = TrimSpace(cfg.CommitTitle)
            /\ run.result.Body = run.commitBody
            /\ SubSeq(run.result.Body, 1, Len(cfg.CommitMessage)) = cfg.CommitMessage
            /\ run.result.Source = run.existingPr.Source
            /\ run.result.Base = run.existingPr.Base

\* two promotions in succession, of version 1 and then of version 2, each find pull
\* request 1 and update it: it is still the only pull request, and its branch now
\* promotes version 2
C2_Witness ==
    /\ CreateReturned /\ run.err = ""
    /\ ReusesExistingPR
    /\ prev.valid /\ prev.ok /\ prev.result = 1 /\ prev.version = 1
    /\ run.version = 2
    /\ run.result.Number = 1
    /\ Len(remote.prs) = 1
    /\ remote.branches[RepoFullName].tree = 2
    /\ Did("Push") /\ Did("Update")

\* the sha after the callback is the sha before it, HEAD is still that commit with a
\* clean working tree, and no existing pull request is being updated
NothingToPropose ==
    /\ run.latestSha # 0
    /\ run.latestSha = run.currentSha
    /\ git.head.sha = run.latestSha
    /\ ~HasChanges(git)
    /\ run.existingPr = NoPR

\* C3: when the sha after the callback equals the sha before it, the working tree has
\* no uncommitted changes and no existing pull request is being updated, the call
\* makes no branch, commit, push, pull request or label call, and it returns no pull
\* request and no error (the one error it can return is that of the change test
\* itself failing).
C3_NoOpDetection ==
    NothingToPropose =>
        /\ DidNoChange
        /\ pc \in {"cpr", "done"}
        /\ CreateReturned =>
            /\ run.result = NoPR
            /\ run.err \in {"", "failed to detect if there were git changes"}
            /\ ~run.failed => run.err = ""

\* the callback asks for the version main already promotes: the call returns no pull
\* request and no error after the clone and the callback
C3_Witness ==
    /\ CreateReturned
    /\ NothingToPropose
    /\ cfg.Function = "edit"
    /\ run.version = 1 /\ git.head = remote.branches[MainBranch]
    /\ Did("Clone") /\ Did("Function")
    /\ run.changes = "no"
    /\ ReturnedNoPR

\* C10 as stated: when the listing of pull requests fails with an error other than
\* "not found", Create returns an error and neither clones, commits, pushes nor
\* creates a pull request.
C10_LookupFailureSurfaced ==
    run.listed = "error" =>
        /\ CreateReturned
        /\ run.err # ""
        /\ ~Did("Clone") /\ ~Did("Commit") /\ ~Did("Push") /\ ~Did("CreatePR")

----------------------------------------------------------------------------
(* Properties of FindExistingPullRequest, over the lookup of the Create call *)

LookedUp == pc = "clone"
FilterLabels == Range(cfg.PullRequestFilter.Labels)

\* the listed pull requests that are open, come from the branch named as the
\* repository and carry a label of the filter
QualifyingPRs ==
    {i \in DOMAIN remote.prs :
        /\ ~remote.prs[i].Closed
        /\ ~remote.prs[i].Merged
        /\ remote.prs[i].Source = RepoFullName
        /\ remote.prs[i].Labels \cap FilterLabels # {}}

\* C11: with a label filter and a successful listing the lookup returns the
\* qualifying pull request with the greatest number, and none exactly when no listed
\* pull request qualifies; with no filter it returns none and makes no remote call.
C11_ExistingPRSelection ==
    LookedUp =>
        /\ cfg.PullRequestFilter.nil => run.existingPr = NoPR /\ ops = <<>>
        /\ (~cfg.PullRequestFilter.nil /\ run.listed = "ok") =>
            /\ QualifyingPRs = {} <=> run.existingPr = NoPR
            /\ \A i \in QualifyingPRs :
                /\ run.existingPr.Number >= remote.prs[i].Number
                /\ \E j \in QualifyingPRs : run.existingPr = remote.prs[j]

\* the remote lists pull request 1 and then pull request 2, both qualifying:
\* the lookup returns pull request 2
C11_Witness ==
    /\ LookedUp
    /\ run.listed = "ok"
    /\ Len(remote.prs) = 2
    /\ remote.prs[1].Number = 1 /\ remote.prs[2].Number = 2
    /\ QualifyingPRs = {1, 2}
    /\ run.existingPr = remote.prs[2]
    /\ ops = <<Call("List", "", 0)>>

----------------------------------------------------------------------------
(* Properties of Create's working directory and of its configuration check *)

\* C12: when the caller gave no directory, the directory Create cloned into does not
\* exist any more after Create returns, on every exit path after the clone.
C12_CloneDirRemoved ==
    (CreateReturned /\ cfg.prDir = "" /\ Did("Clone")) => CloneDir(runs) \notin fs

\* the operations Create does between the lookup and the call of the change function
PreparingOps == {"EnsureForked", "Clone", "Rebase", "Checkout"}

\* C13: with no change function configured Create returns the configuration error
\* before it ensures a fork, clones, rebases or checks out a branch, and without any
\* commit, push, pull request creation or update, or label call.
C13_MissingFunctionFatalAtOnce ==
    (CreateReturned /\ cfg.Function = "nil" /\ cfg.gitURL # "" /\ failures = 0) =>
        /\ run.err = "no change function configured"
        /\ \A i \in DOMAIN ops : ops[i].op \notin PreparingOps \cup ChangingOps

\* the pull request Create returned, as the remote holds it
ReturnedOnRemote == remote.prs[run.result.Number]

\* C15: on every path of Create that ends with a pull request created or updated,
\* every label of the desired set is on that pull request afterwards.
C15_LabelsReconciledAfterSubmit ==
    (CreateReturned /\ run.err = "" /\ run.result # NoPR) =>
        Range(MergeLabels(cfg.autoMerge, cfg.details)) \subseteq ReturnedOnRemote.Labels

----------------------------------------------------------------------------
(* Further properties of the helmfile rule *)

\* the promotion has appended one release under the name kept-old releases get
AppendedKeepOld ==
    /\ Len(After) = Len(Before) + 1
    /\ IsKeepOldName(After[Len(After)].Name)

\* C14: old releases are kept exactly when the rule's flag is set or the app name of
\* the request is in keepOldVersions, whatever chart name the details carry: then the
\* promotion appends, and otherwise the scoring runs.
C14_KeepOldByAppName ==
    Promoted =>
        (AppendedKeepOld <=>
            (promo.r.KeepOldReleases \/ contains(promo.r.KeepOldVersions, promo.r.AppName)))

\* the score the matcher gives a release of the document before
ScoreOf(release) ==
    (IF MatchesAppName(release) THEN 1 ELSE 0)
    + (IF MatchesReleaseName(release) THEN 2 ELSE 0)

\* the releases that reach the highest score, when that is positive
HighestScorers ==
    {i \in 1..Len(Before) :
        /\ ScoreOf(Before[i]) > 0
        /\ \A j \in 1..Len(Before) : ScoreOf(Before[j]) <= ScoreOf(Before[i])}

\* C19: when several releases reach the same highest positive score, the version is
\* set on the first of them and every later one is left as it was, in a flat and in
\* a nested document.
C19_FirstHighestWins ==
    (Promoted /\ ~KeptOld /\ Cardinality(HighestScorers) >= 2) =>
        \E m \in HighestScorers :
            /\ \A i \in HighestScorers : m <= i
            /\ After = VersionSetAt(m)
            /\ After[m].Version = promo.r.Version
            /\ \A i \in HighestScorers \ {m} : After[i] = Before[i]

\* two releases of a nested document match the app name alike: the first was promoted
C19_Witness ==
    /\ Promoted /\ ~KeptOld /\ nestedHelmfile
    /\ HighestScorers = {1, 2}
    /\ ScoreOf(Before[1]) = 1
    /\ After[1].Version = promo.r.Version
    /\ After[2].Version = v100

----------------------------------------------------------------------------
(* Properties of the base branch resolution of CreatePullRequest *)

\* git was asked for the base branch: no existing pull request, no base configured
BaseAsked == run.base \notin {"", "given"}
BaseResolved == BaseAsked /\ pc # "done"
RemoteBranchNameError == run.err = "failed to get the remote branch name"

\* the answers of rev-parse and of the HEAD branch line are taken as the base, and an
\* empty answer of rev-parse makes the current local branch the base
BaseFromAnswers ==
    /\ (BaseResolved /\ run.base \in {"revparse", "remoteshow"}) =>
            run.baseBranch = MainBranch /\ ~Did("Branch")
    /\ (BaseResolved /\ run.base = "revparse") => ~Did("RemoteShow")
    /\ (BaseResolved /\ run.base = "remoteshow") => Did("RemoteShow")
    /\ (BaseResolved /\ run.base = "emptyrevparse") =>
            run.baseBranch = MainBranch /\ Did("Branch") /\ ~Did("RemoteShow")

\* C16 as stated: when rev-parse fails and remote show fails or has no HEAD branch line,
\* the base is the current local branch; the resolution fails only when the current
\* local branch cannot be determined.
C16_FallbackChainAsStated ==
    /\ BaseFromAnswers
    /\ (BaseAsked /\ run.base \in {"bothfail", "noheadline"}) =>
            Did("Branch") /\ ~RemoteBranchNameError

\* C16: the base is the answer of rev-parse when it succeeds, else the HEAD branch line
\* of remote show; when remote show fails or has no non-empty HEAD branch line Create
\* fails and no branch is created; the current local branch is the base only when
\* rev-parse succeeds with an empty branch name, and then Create fails when the local
\* branch cannot be determined.
C16_FallbackChain ==
    /\ BaseFromAnswers
    /\ (BaseAsked /\ run.base \in {"bothfail", "noheadline"}) =>
            /\ CreateReturned /\ RemoteBranchNameError /\ run.result = NoPR
            /\ Did("RemoteShow") /\ ~Did("Branch") /\ ~Did("CreateBranch")
    /\ RemoteBranchNameError => run.base \in {"bothfail", "noheadline"}
    /\ run.err = "failed at Branch" => run.base = "emptyrevparse"

\* rev-parse failed and the output of remote show had no HEAD branch line: Create has
\* returned the error
C16_Witness ==
    /\ CreateReturned
    /\ run.base = "noheadline"
    /\ RemoteBranchNameError
    /\ Did("RevParse") /\ Did("RemoteShow")

----------------------------------------------------------------------------
(* Properties of the OCI flag of the registry entries *)

LastAlloc == allocs[Len(allocs)]
Allocated == Len(allocs) > 0 /\ LastAlloc.target.Prefix = EmptyStr

\* C18: in an OCI environment an entry whose URL is the target URL has its OCI flag set
\* after the call; no call unsets a flag; a second call with the same target leaves
\* the registry as the first call left it.
C18_OCIFlagUpgrade ==
    Allocated =>
        /\ \A k \in DOMAIN LastAlloc.before :
            /\ (IsOCI(chartKind) /\ LastAlloc.before[k].URL = LastAlloc.d.Repository)
                    => registry[k].OCI
            /\ LastAlloc.before[k].OCI => registry[k].OCI
        /\ defaultPrefix(registry, chartKind, LastAlloc.target, sDev).Repositories = registry

\* C22: after a call with an empty prefix the registry has an entry with the prefix set
\* on the details as its alias and the target URL as its URL, and no entry carries that
\* alias with another URL.
C22_AllocatorPostcondition ==
    Allocated =>
        /\ \E k \in DOMAIN registry :
            /\ registry[k].Name = LastAlloc.d.Prefix
            /\ registry[k].URL = LastAlloc.d.Repository
        /\ \A k \in DOMAIN registry :
            registry[k].Name = LastAlloc.d.Prefix
                => registry[k].URL = LastAlloc.d.Repository

----------------------------------------------------------------------------
(* Properties of the pull request body across updates *)

\* Create has updated an existing pull request whose body had the separator
UpdatedWithChangelog ==
    /\ CreateReturned /\ run.err = "" /\ Did("Update")
    /\ SepIndex(run.existingPR.Body, cfg.ChangelogSeparator) > 0

\* the text after the first separator of the body the pull request had before
PreviousSection ==
    SubSeq(run.existingPR.Body,
           SepIndex(run.existingPR.Body, cfg.ChangelogSeparator) + 1,
           Len(run.existingPR.Body))

BodyOnRemote == remote.prs[run.result.Number].Body
Occurrences(body, token) == Cardinality({i \in DOMAIN body : body[i] = token})
VersionLine(version) == "version " \o ToString(version)

\* the place of the last changelog of a version in the body, 0 when there is none
LastChangelog(version) ==
    LET at == {i \in DOMAIN BodyOnRemote : BodyOnRemote[i] = VersionLine(version)}
    IN IF at = {} THEN 0 ELSE MaxOf(at)

\* the call before updated or created the same pull request
UpdatedAgain ==
    /\ UpdatedWithChangelog
    /\ prev.valid /\ prev.ok /\ prev.result = run.result.Number

\* C20: the body after an update is the commit message, the separator, the changelog
\* section of the body before and the new changelog; the separator occurs once, and
\* after two updates in a row the changelog of the first stands before that of the second.
C20_ChangelogPreserved ==
    /\ UpdatedWithChangelog =>
        /\ BodyOnRemote = cfg.CommitMessage \o <<NewLine, cfg.ChangelogSeparator>>
                            \o PreviousSection \o <<NewLine>>
                            \o ChangelogOf(cfg, run.version)
        /\ Occurrences(BodyOnRemote, cfg.ChangelogSeparator) = 1
    /\ UpdatedAgain =>
        /\ SepIndex(BodyOnRemote, cfg.ChangelogSeparator) < LastChangelog(prev.version)
        /\ LastChangelog(prev.version) < LastChangelog(run.version)

\* pull request 1 was open before the first call with an earlier changelog, and two
\* calls in a row have updated it: the three changelogs stand in the order they came
C20_Witness ==
    /\ UpdatedAgain
    /\ run.result.Number = 1
    /\ prev.version = 1 /\ run.version = 2
    /\ 0 < SepIndex(BodyOnRemote, "earlier changes")
    /\ SepIndex(BodyOnRemote, "earlier changes") < LastChangelog(1)
    /\ LastChangelog(1) < LastChangelog(2)

----------------------------------------------------------------------------
(* Properties of the links of the root document *)

\* the last promotion went into a nested document and modifyHelmfile returned nil
PromotedNested == promo.outcome = "ok" /\ nestedHelmfile
LinkedIn(links) == \E i \in DOMAIN links : Match(links[i], rulePath)

\* C21: after a promotion into a nested document the root document has a link whose
\* pattern matches the nested path; the links are unchanged when there was one, else
\* one link with the nested path is appended; over all promotions at most one link is
\* added for the path.
C21_NestedLinkedOnce ==
    PromotedNested =>
        /\ LinkedIn(rootHelmfiles)
        /\ rootHelmfiles = (IF LinkedIn(promo.root) THEN promo.root
                            ELSE Append(promo.root, rulePath))
        /\ Len(rootHelmfiles) <= Len(rootHelmfiles0) + 1

----------------------------------------------------------------------------
(* Properties of promotions of one app in a row *)

\* the document before the second promotion ends with the declaration the first
\* promotion made for the app under this chart resolution, at another version
DeclaredBefore ==
    /\ promotions = 2
    /\ Len(Before) > 0
    /\ Before[Len(Before)].Name = promo.resolved.LocalName
    /\ Before[Len(Before)].Namespace = PromoteNs
    /\ Before[Len(Before)].Version \in {v120, v200} \ {promo.r.Version}

\* C23: in a flat document with keep-old-releases off, the second promotion of an app
\* into the same namespace updates the declaration of the first: no declaration is
\* appended, and the one of the app is at the new version, for every chart resolution.
C23_RepeatedPromotionUpdates ==
    (Promoted /\ ~nestedHelmfile /\ ~KeptOld /\ DeclaredBefore) =>
        /\ Len(After) = Len(Before)
        /\ After[Len(Before)].Version = promo.r.Version

----------------------------------------------------------------------------
(* CreatePullRequest given a pull request without a source branch *)

\* CreatePullRequest has returned from a call that was handed a changed clone and a
\* pull request without a source branch
ReturnedSourceless ==
    /\ pc = "done"
    /\ run.existingPr # NoPR
    /\ run.existingPr.Source = ""
    /\ run.changes = "yes"

\* C24: handed a changed clone and a pull request without a source branch,
\* CreatePullRequest does not fault and never calls PullRequests.Update; when it
\* returns without error it has asked git for the base branch, made a fresh branch
\* when none was configured,
\* pushed it and returns a new pull request.
C24_SourcelessStartsAfresh ==
    ReturnedSourceless =>
        /\ ~run.panic
        /\ \A i \in DOMAIN ops : ops[i].op # "Update"
        /\ run.err = "" =>
              /\ run.result # NoPR
              /\ run.result.Number # run.existingPr.Number
              /\ cfg.BranchName = "" => \E i \in DOMAIN ops : ops[i].op = "CreateBranch"
              /\ \E i \in DOMAIN ops : ops[i].op = "Push"
              /\ \E i \in DOMAIN ops : ops[i].op = "CreatePR"
====
